---- MODULE Spec2Model ----
(***************************************************************************)
(* A model of the cristalhq/oauth2 client: the token-endpoint round trip   *)
(* of Client (Exchange, CredentialsToken, Token -> retrieveToken ->        *)
(* doRequest -> parseResponse), the auth-mode auto-detection and its cache *)
(* in Client.config.Mode, and Token's validity and expiry.                 *)
(*                                                                         *)
(* url.Values is a function from keys to non-empty sequences of strings.   *)
(* Encode gives the pairs of a request body in their order, keys and       *)
(* values as they are; the text of a URL is a sequence of characters, a    *)
(* run of unreserved characters counting as one, on which percent-escaping *)
(* and query parsing work.  A time is an integer number of seconds; the    *)
(* zero time.Time is a value of its own.                                   *)
(* The transport and the token endpoint are the environment: each request  *)
(* handed to the transport is answered by any element of Answers.          *)
(***************************************************************************)
EXTENDS Integers, Sequences, FiniteSets, TLC

VARIABLES config, call, now, tok, url, expiresIn

vars == <<config, call, now, tok, url, expiresIn>>

(* ------------------------------------------------------------------ *)
(* Bounds of the model.                                                 *)
(* ------------------------------------------------------------------ *)

\* The clock runs from 1 to MaxTime seconds.
MaxTime == 2

(* ------------------------------------------------------------------ *)
(* Config and Mode.                                                     *)
(* ------------------------------------------------------------------ *)

AutoDetectMode == 0

InParamsMode == 1

InHeaderMode == 2

Modes == {AutoDetectMode, InParamsMode, InHeaderMode}

\* A TokenURL that url.Parse rejects, so that http.NewRequestWithContext fails.
BadTokenURL == "%bad"

Configs ==
    {c \in [ClientID : {"", "CLIENT_ID??"},
            ClientSecret : {"", "CLIENT_SECRET??"},
            AuthURL : {"server:1234/auth"},
            TokenURL : {"server/token", BadTokenURL},
            Mode : Modes,
            RedirectURL : {"", "REDIRECT_URL"},
            Scopes : {<<>>, <<"scope1", "scope2">>}] :
        /\ (c.RedirectURL = "") <=> (c.Scopes = <<>>)
        /\ (c.TokenURL = BadTokenURL) => (c.ClientID # "" /\ c.ClientSecret # "")}

(* ------------------------------------------------------------------ *)
(* url.Values.                                                          *)
(* ------------------------------------------------------------------ *)

EmptyValues == <<>>

\* A url.Values argument of a caller: nil, or a map.
NilValues == [isNil |-> TRUE, m |-> EmptyValues]

Values(m) == [isNil |-> FALSE, m |-> m]

Get(v, k) == IF k \in DOMAIN v /\ Len(v[k]) > 0 THEN v[k][1] ELSE ""

Set(v, k, x) == [kk \in (DOMAIN v) \cup {k} |-> IF kk = k THEN <<x>> ELSE v[kk]]

Add(v, k, x) ==
    [kk \in (DOMAIN v) \cup {k} |->
        IF kk = k
        THEN (IF k \in DOMAIN v THEN Append(v[k], x) ELSE <<x>>)
        ELSE v[kk]]

\* cloneURLValues returns a fresh map: an empty one for nil.
cloneURLValues(vals) ==
    IF vals.isNil THEN EmptyValues ELSE [k \in DOMAIN vals.m |-> vals.m[k]]

SameMap_Alias(vals) == ~vals.isNil

\* Whether the map cloneURLValues returns is the map it was given: it is
\* made anew, with a new slice for every key.
SameMap(vals) == FALSE

\* The map given to cloneURLValues, once v has been written through the
\* map that cloneURLValues returned.
Written(vals, v) == IF SameMap(vals) THEN Values(v) ELSE vals

\* The keys of the model in the order sort.Strings gives them.
KeyOrder ==
    <<"access_type", "client_id", "client_secret", "code", "grant_type", "param1",
      "password", "redirect_uri", "refresh_token", "response_type", "scope",
      "state", "username">>

RECURSIVE PairsOf(_, _, _)
PairsOf(k, vs, i) ==
    IF i > Len(vs) THEN <<>> ELSE <<[key |-> k, value |-> vs[i]]>> \o PairsOf(k, vs, i + 1)

RECURSIVE EncodeFrom(_, _)
EncodeFrom(v, i) ==
    IF i > Len(KeyOrder) THEN <<>>
    ELSE (IF KeyOrder[i] \in DOMAIN v THEN PairsOf(KeyOrder[i], v[KeyOrder[i]], 1) ELSE <<>>)
         \o EncodeFrom(v, i + 1)

\* Values.Encode: "key=value" pairs joined by '&', sorted by key.
Encode(v) == EncodeFrom(v, 1)

RECURSIVE JoinFrom(_, _, _)
JoinFrom(elems, sep, i) ==
    IF i > Len(elems) THEN ""
    ELSE IF i = Len(elems) THEN elems[i]
    ELSE elems[i] \o sep \o JoinFrom(elems, sep, i + 1)

\* strings.Join(elems, sep).
Join(elems, sep) == JoinFrom(elems, sep, 1)

(* ------------------------------------------------------------------ *)
(* The text of a URL: a sequence of characters, percent-escaping and    *)
(* url.ParseQuery.                                                      *)
(* ------------------------------------------------------------------ *)

\* The characters of a string; a run of letters, digits and other plain
\* characters is one element where no operation looks inside it.
Chars(s) ==
    CASE s = "" -> <<>>
      [] s = "86400.92" -> <<"86400", ".", "92">>
      [] s = "1443571905.5606415" -> <<"1443571905", ".", "5606415">>
      [] s = "10.0.0.1" -> <<"10", ".", "0", ".", "0", ".", "1">>
      [] s = "user.name" -> <<"user", ".", "name">>
      [] s = "  untrimmed  " -> <<" ", " ", "untrimmed", " ", " ">>
      [] s = " 86400 " -> <<" ", "86400", " ">>
      [] s = "scope1 scope2" -> <<"scope1", " ", "scope2">>
      [] s = "a&b=c" -> <<"a", "&", "b", "=", "c">>
      [] s = "1+1" -> <<"1", "+", "1">>
      [] s = "server:1234/auth?foo=bar" -> <<"server:1234/auth", "?", "foo", "=", "bar">>
      [] s = "server:1234/auth?" -> <<"server:1234/auth", "?">>
      [] s = "CLIENT_ID??" -> <<"CLIENT_ID", "?", "?">>
      [] s = "CLIENT_SECRET??" -> <<"CLIENT_SECRET", "?", "?">>
      [] OTHER -> <<s>>

RECURSIVE StringFrom(_, _)
StringFrom(cs, i) == IF i > Len(cs) THEN "" ELSE cs[i] \o StringFrom(cs, i + 1)

\* The string of a sequence of characters.
String(cs) == StringFrom(cs, 1)

\* url.QueryEscape of one character: a space becomes '+', a reserved
\* character is percent-encoded, an unreserved one stays.
EscapeChar(c) ==
    CASE c = " " -> "+"
      [] c = "&" -> "%26"
      [] c = "+" -> "%2B"
      [] c = "=" -> "%3D"
      [] c = "?" -> "%3F"
      [] OTHER -> c

QueryEscape_Identity(s) == Chars(s)

\* url.QueryEscape(s), as characters.
QueryEscape(s) == [i \in 1 .. Len(Chars(s)) |-> EscapeChar(Chars(s)[i])]

\* url.QueryUnescape of one character or one percent-encoded triple.
UnescapeChar(c) ==
    CASE c = "+" -> " "
      [] c = "%26" -> "&"
      [] c = "%2B" -> "+"
      [] c = "%3D" -> "="
      [] c = "%3F" -> "?"
      [] OTHER -> c

\* url.QueryUnescape, from characters to the string.
QueryUnescape(cs) == String([i \in 1 .. Len(cs) |-> UnescapeChar(cs[i])])

RECURSIVE EncodeTextFrom(_, _)
EncodeTextFrom(pairs, i) ==
    IF i > Len(pairs) THEN <<>>
    ELSE (IF i > 1 THEN <<"&">> ELSE <<>>)
         \o QueryEscape(pairs[i].key) \o <<"=">> \o QueryEscape(pairs[i].value)
         \o EncodeTextFrom(pairs, i + 1)

\* The text Values.Encode writes: escaped "key=value" joined by '&'.
EncodeText(v) == EncodeTextFrom(Encode(v), 1)

\* The index of the first c in cs, or Len(cs) + 1.
IndexOf(cs, c) ==
    IF \E i \in 1 .. Len(cs) : cs[i] = c
    THEN CHOOSE i \in 1 .. Len(cs) : cs[i] = c /\ \A j \in 1 .. (i - 1) : cs[j] # c
    ELSE Len(cs) + 1

RECURSIVE parseQuery(_, _)
\* url.parseQuery(m, query): the pairs of query, cut at '&' and at the
\* first '=', unescaped and added to m in their order.
parseQuery(m, query) ==
    IF query = <<>> THEN m
    ELSE LET amp == IndexOf(query, "&")
             seg == SubSeq(query, 1, amp - 1)
             rest == SubSeq(query, amp + 1, Len(query))
             eq == IndexOf(seg, "=")
             key == QueryUnescape(SubSeq(seg, 1, eq - 1))
             value == QueryUnescape(SubSeq(seg, eq + 1, Len(seg)))
         IN  parseQuery(IF seg = <<>> THEN m ELSE Add(m, key, value), rest)

\* url.Parse(u).Query(): the parsed text after the first '?'.
Query(u) == parseQuery(EmptyValues, SubSeq(u, IndexOf(u, "?") + 1, Len(u)))

(* ------------------------------------------------------------------ *)
(* Errors.  An error is its message; the status error also keeps the    *)
(* three values its format string prints.                               *)
(* ------------------------------------------------------------------ *)

NoBody == [syntax |-> "none"]

Err(msg) == [msg |-> msg, code |-> 0, text |-> "", body |-> NoBody]

NoError == Err("")

ErrRefreshTokenNotSet == Err("refresh token is not set")

ErrNewRequest == Err("parse \"%bad\": invalid URL escape \"%ba\"")

ErrContextCanceled == Err("context canceled")

ErrConnectionRefused == Err("connection refused")

ErrRead == Err("oauth2: cannot fetch token: unexpected EOF")

ErrStatus(code, text, body) ==
    [msg |-> "oauth2: cannot fetch token: %v %v\nResponse: %s",
     code |-> code, text |-> text, body |-> body]

ErrInvalidEscape == Err("invalid URL escape")

ErrJSON == Err("json: cannot unmarshal")

ErrMissingAccessToken == Err("oauth2: server response missing access_token")

(* ------------------------------------------------------------------ *)
(* The token request.                                                   *)
(* ------------------------------------------------------------------ *)

NoAuth == [set |-> FALSE, username |-> "", password |-> ""]

BasicAuth_None(u, p) == NoAuth

\* req.SetBasicAuth(u, p).
BasicAuth(u, p) == [set |-> TRUE, username |-> u, password |-> p]

NoRequest ==
    [Method |-> "", URL |-> "", Body |-> <<>>, ContentType |-> "", Authorization |-> NoAuth]

\* url.Parse, as far as http.NewRequestWithContext depends on it.
URLParses(u) == u # BadTokenURL

\* Client.newTokenRequest: the POST to TokenURL, with the client credentials
\* in the body (InParamsMode) or in the Authorization header (InHeaderMode).
\* params is the map of the caller after the call.
newTokenRequest(cfg, mode, v) ==
    LET v2 == IF mode = InParamsMode
              THEN LET c == cloneURLValues(Values(v))
                       a == IF cfg.ClientID # "" THEN Set(c, "client_id", cfg.ClientID) ELSE c
                   IN  IF cfg.ClientSecret # "" THEN Set(a, "client_secret", cfg.ClientSecret) ELSE a
              ELSE v
        params == IF mode = InParamsMode THEN Written(Values(v), v2).m ELSE v
    IN  IF ~URLParses(cfg.TokenURL)
        THEN [req |-> NoRequest, err |-> ErrNewRequest, params |-> params]
        ELSE [params |-> params,
              req |-> [Method |-> "POST",
                       URL |-> cfg.TokenURL,
                       Body |-> Encode(v2),
                       ContentType |-> "application/x-www-form-urlencoded",
                       Authorization |-> IF mode = InHeaderMode
                                         THEN BasicAuth(String(QueryEscape(cfg.ClientID)),
                                                        String(QueryEscape(cfg.ClientSecret)))
                                         ELSE NoAuth],
              err |-> NoError]

(* ------------------------------------------------------------------ *)
(* Time and Token.                                                      *)
(* ------------------------------------------------------------------ *)

\* time.Time{}: the zero time.
ZeroTime == [zero |-> TRUE, sec |-> 0]

TimeAt(t) == [zero |-> FALSE, sec |-> t]

\* expiryDelta, in seconds.
expiryDelta == 10

NoRaw == [kind |-> "nil", m |-> <<>>]

MakeToken(access, type, refresh, expiry, raw) ==
    [AccessToken |-> access, TokenType |-> type, RefreshToken |-> refresh,
     Expiry |-> expiry, Raw |-> raw]

\* The nil *Token.
NilToken == [isNil |-> TRUE, t |-> MakeToken("", "", "", ZeroTime, NoRaw)]

Ptr(t) == [isNil |-> FALSE, t |-> t]

IsExpired_After(t, timeNow) ==
    IF t.Expiry.zero THEN FALSE
    ELSE timeNow < t.Expiry.sec - expiryDelta

IsExpired_NotStrict(t, timeNow) ==
    IF t.Expiry.zero THEN FALSE
    ELSE t.Expiry.sec - expiryDelta <= timeNow

\* Token.IsExpired at time timeNow.
IsExpired(t, timeNow) ==
    IF t.Expiry.zero THEN FALSE
    ELSE t.Expiry.sec - expiryDelta < timeNow

Valid_NoExpiry(p, timeNow) == ~p.isNil /\ p.t.AccessToken # ""

\* Token.Valid at time timeNow, of a *Token.
Valid(p, timeNow) ==
    ~p.isNil /\ p.t.AccessToken # "" /\ ~IsExpired(p.t, timeNow)

\* The token types of the model.
TokenTypes ==
    {"", "bearer", "Bearer", "beAREr", "basic", "Basic", "mac", "MAC", "mAc",
     "unknown", "Unknown", "bearer "}

\* The lower-case form of a token type, letter by letter.
ToLower(s) ==
    CASE s \in {"Bearer", "beAREr"} -> "bearer"
      [] s = "Basic" -> "basic"
      [] s \in {"MAC", "mAc"} -> "mac"
      [] s = "Unknown" -> "unknown"
      [] OTHER -> s

\* strings.EqualFold(s, t), for t in lower case.
EqualFold(s, t) == ToLower(s) = t

Type_Verbatim(t) == IF t.TokenType # "" THEN t.TokenType ELSE "Bearer"

\* Token.Type.
Type(t) ==
    CASE EqualFold(t.TokenType, "bearer") -> "Bearer"
      [] ~EqualFold(t.TokenType, "bearer") /\ EqualFold(t.TokenType, "mac") -> "MAC"
      [] ~EqualFold(t.TokenType, "bearer") /\ ~EqualFold(t.TokenType, "mac")
           /\ EqualFold(t.TokenType, "basic") -> "Basic"
      [] OTHER -> IF t.TokenType # "" THEN t.TokenType ELSE "Bearer"

(* ------------------------------------------------------------------ *)
(* Response bodies.  A body is given by its syntax and its fields: a    *)
(* form body is a query string, a JSON body is one JSON object, and a   *)
(* garbage body is neither.                                             *)
(* ------------------------------------------------------------------ *)

JStr(s) == [t |-> "string", lit |-> s]

JNum(lit) == [t |-> "number", lit |-> lit]

JNull == [t |-> "null", lit |-> "null"]

JBool(lit) == [t |-> "bool", lit |-> lit]

JObject == [t |-> "object", lit |-> "{}"]

FormBody(fields) == [syntax |-> "form", fields |-> fields]

JSONBody(fields) == [syntax |-> "json", fields |-> fields]

GarbageBody == [syntax |-> "garbage", fields |-> <<>>]

\* The decimal integers of the model, by their text.
Numerals == ("0" :> 0) @@ ("9" :> 9) @@ ("10" :> 10) @@ ("11" :> 11) @@ ("-3" :> -3)

\* strconv.ParseInt(s, 10, 64), strconv.Atoi(s) and json.Number.Int64().
ParseInt(s) ==
    IF s \in DOMAIN Numerals THEN [n |-> Numerals[s], ok |-> TRUE] ELSE [n |-> 0, ok |-> FALSE]

\* url.ParseQuery of a body.  The text of a JSON object has no '=' and no
\* bad escape: it parses as one key with an empty value.
ParseQuery(body) ==
    CASE body.syntax = "form" -> [vals |-> body.fields, err |-> NoError]
      [] body.syntax = "json" -> [vals |-> [k \in {"{json}"} |-> <<"">>], err |-> NoError]
      [] OTHER -> [vals |-> EmptyValues, err |-> ErrInvalidEscape]

\* Decimal integers above the largest int, by their text.
OutOfRange == {"99999999999999999999"}

\* strconv.Atoi(s): the integer; for an integer out of range, the largest
\* int together with the error; 0 with the error for any other text.
Atoi(s) ==
    IF s \in DOMAIN Numerals THEN [n |-> Numerals[s], max |-> FALSE, ok |-> TRUE]
    ELSE IF s \in OutOfRange THEN [n |-> 0, max |-> TRUE, ok |-> FALSE]
    ELSE [n |-> 0, max |-> FALSE, ok |-> FALSE]

\* The seconds of time.Duration(expires) * time.Second.  For the largest
\* int the product (2^63 - 1) * 10^9 = 2^64 * (5 * 10^8) - 10^9 wraps in
\* int64 to -10^9 nanoseconds: one second back.
DurationSeconds(expires) == IF expires.max THEN 0 - 1 ELSE expires.n

\* parseText: the token of a form-encoded body read at time timeNow.  The
\* error of Atoi is dropped and its value is used.
parseText(body, timeNow) ==
    LET q == ParseQuery(body)
        vals == q.vals
        expires == Atoi(Get(vals, "expires_in"))
    IN  IF q.err # NoError THEN [token |-> NilToken, err |-> q.err]
        ELSE [token |-> Ptr(MakeToken(Get(vals, "access_token"),
                                      Get(vals, "token_type"),
                                      Get(vals, "refresh_token"),
                                      IF expires.max \/ expires.n # 0
                                      THEN TimeAt(timeNow + DurationSeconds(expires))
                                      ELSE ZeroTime,
                                      [kind |-> "url.Values", m |-> vals])),
              err |-> NoError]

MaxInt32 == 2147483647

\* An int64 beyond the integers of the checker: q * 2^31 + r, 0 <= r < 2^31.
Int64(q, r) == [q |-> q, r |-> r]

\* The int64 of an integer of the checker.
Widen(n) == IF n >= 0 THEN Int64(0, n) ELSE Int64(-1, (n + MaxInt32) + 1)

\* Decimal integers around the powers of two, by their text.
BigNumerals ==
    ("-2305843009213693957" :> Int64(-1073741825, 2147483643))
    @@ ("-2305843009213693953" :> Int64(-1073741825, 2147483647))
    @@ ("-2305843009213693952" :> Int64(-1073741824, 0))
    @@ ("-2305843009213693951" :> Int64(-1073741824, 1))
    @@ ("-2305843009213693950" :> Int64(-1073741824, 2))
    @@ ("-1099511627781" :> Int64(-513, 2147483643))
    @@ ("-1099511627777" :> Int64(-513, 2147483647))
    @@ ("-1099511627776" :> Int64(-512, 0))
    @@ ("-1099511627775" :> Int64(-512, 1))
    @@ ("-1099511627774" :> Int64(-512, 2))
    @@ ("-8589934597" :> Int64(-5, 2147483643))
    @@ ("-8589934593" :> Int64(-5, 2147483647))
    @@ ("-8589934592" :> Int64(-4, 0))
    @@ ("-8589934591" :> Int64(-4, 1))
    @@ ("-8589934590" :> Int64(-4, 2))
    @@ ("-6442450949" :> Int64(-4, 2147483643))
    @@ ("-6442450945" :> Int64(-4, 2147483647))
    @@ ("-6442450944" :> Int64(-3, 0))
    @@ ("-6442450943" :> Int64(-3, 1))
    @@ ("-6442450942" :> Int64(-3, 2))
    @@ ("-4294967301" :> Int64(-3, 2147483643))
    @@ ("-4294967297" :> Int64(-3, 2147483647))
    @@ ("-4294967296" :> Int64(-2, 0))
    @@ ("-4294967295" :> Int64(-2, 1))
    @@ ("-4294967294" :> Int64(-2, 2))
    @@ ("-2147483653" :> Int64(-2, 2147483643))
    @@ ("-2147483649" :> Int64(-2, 2147483647))
    @@ ("-2147483648" :> Int64(-1, 0))
    @@ ("-2147483647" :> Int64(-1, 1))
    @@ ("-2147483646" :> Int64(-1, 2))
    @@ ("-86400" :> Int64(-1, 2147397248))
    @@ ("-100" :> Int64(-1, 2147483548))
    @@ ("-5" :> Int64(-1, 2147483643))
    @@ ("100" :> Int64(0, 100))
    @@ ("3600" :> Int64(0, 3600))
    @@ ("86400" :> Int64(0, 86400))
    @@ ("2147483646" :> Int64(0, 2147483646))
    @@ ("2147483647" :> Int64(0, 2147483647))
    @@ ("2147483648" :> Int64(1, 0))
    @@ ("2147483649" :> Int64(1, 1))
    @@ ("2147483653" :> Int64(1, 5))
    @@ ("4294967294" :> Int64(1, 2147483646))
    @@ ("4294967295" :> Int64(1, 2147483647))
    @@ ("4294967296" :> Int64(2, 0))
    @@ ("4294967297" :> Int64(2, 1))
    @@ ("4294967301" :> Int64(2, 5))
    @@ ("6442450942" :> Int64(2, 2147483646))
    @@ ("6442450943" :> Int64(2, 2147483647))
    @@ ("6442450944" :> Int64(3, 0))
    @@ ("6442450945" :> Int64(3, 1))
    @@ ("6442450949" :> Int64(3, 5))
    @@ ("8589934590" :> Int64(3, 2147483646))
    @@ ("8589934591" :> Int64(3, 2147483647))
    @@ ("8589934592" :> Int64(4, 0))
    @@ ("8589934593" :> Int64(4, 1))
    @@ ("8589934597" :> Int64(4, 5))
    @@ ("1099511627774" :> Int64(511, 2147483646))
    @@ ("1099511627775" :> Int64(511, 2147483647))
    @@ ("1099511627776" :> Int64(512, 0))
    @@ ("1099511627777" :> Int64(512, 1))
    @@ ("1099511627781" :> Int64(512, 5))
    @@ ("2305843009213693950" :> Int64(1073741823, 2147483646))
    @@ ("2305843009213693951" :> Int64(1073741823, 2147483647))
    @@ ("2305843009213693952" :> Int64(1073741824, 0))
    @@ ("2305843009213693953" :> Int64(1073741824, 1))
    @@ ("2305843009213693957" :> Int64(1073741824, 5))

\* json.Number.Int64: strconv.ParseInt(s, 10, 64).
ParseInt64(s) ==
    IF s \in DOMAIN Numerals THEN [i |-> Widen(Numerals[s]), ok |-> TRUE]
    ELSE IF s \in DOMAIN BigNumerals THEN [i |-> BigNumerals[s], ok |-> TRUE]
    ELSE [i |-> Int64(0, 0), ok |-> FALSE]

\* i > math.MaxInt32.
AboveMaxInt32(i) == i.q >= 1

\* The conversion expirationTime(i) of an int64 to int32: the low 32 bits,
\* read as a signed number.
expirationTime(i) == IF i.q % 2 = 1 THEN (i.r - MaxInt32) - 1 ELSE i.r

\* json.Unmarshal into a string field of tokenJSON: absent and null leave "".
StringField(fields, k) ==
    IF k \notin DOMAIN fields \/ fields[k].t = "null" THEN [s |-> "", ok |-> TRUE]
    ELSE IF fields[k].t = "string" THEN [s |-> fields[k].lit, ok |-> TRUE]
    ELSE [s |-> "", ok |-> FALSE]

\* expirationTime.UnmarshalJSON on the value of expires_in, when present.
UnmarshalJSON(b) ==
    IF b.t = "null" THEN [n |-> 0, ok |-> TRUE]
    ELSE IF b.t \notin {"number", "string"} THEN [n |-> 0, ok |-> FALSE]
    ELSE LET i == ParseInt64(b.lit)
         IN  IF ~i.ok THEN [n |-> 0, ok |-> FALSE]
             ELSE [n |-> expirationTime(IF AboveMaxInt32(i.i) THEN Int64(0, MaxInt32) ELSE i.i),
                   ok |-> TRUE]

ExpiresInField(fields) ==
    IF "expires_in" \notin DOMAIN fields THEN [n |-> 0, ok |-> TRUE]
    ELSE UnmarshalJSON(fields["expires_in"])

expiry_AlwaysSet(ExpiresIn, timeNow) == TimeAt(timeNow + ExpiresIn)

\* tokenJSON.expiry.
expiry(ExpiresIn, timeNow) ==
    IF ExpiresIn # 0 THEN TimeAt(timeNow + ExpiresIn) ELSE ZeroTime

\* parseJSON: the token of a JSON body read at time timeNow.
parseJSON(body, timeNow) ==
    IF body.syntax # "json" THEN [token |-> NilToken, err |-> ErrJSON]
    ELSE LET at == StringField(body.fields, "access_token")
             tt == StringField(body.fields, "token_type")
             rt == StringField(body.fields, "refresh_token")
             ex == ExpiresInField(body.fields)
         IN  IF ~(at.ok /\ tt.ok /\ rt.ok /\ ex.ok)
             THEN [token |-> NilToken, err |-> ErrJSON]
             ELSE [token |-> Ptr(MakeToken(at.s, tt.s, rt.s, expiry(ex.n, timeNow),
                                           [kind |-> "map", m |-> body.fields])),
                   err |-> NoError]

(* ------------------------------------------------------------------ *)
(* Token.Extra.  A value of type interface{} is its dynamic type and    *)
(* the value in the field of that type.                                 *)
(* ------------------------------------------------------------------ *)

NilAny == [kind |-> "nil", s |-> "", i |-> Int64(0, 0), j |-> JNull]

\* A string.
StringAny(s) == [kind |-> "string", s |-> s, i |-> Int64(0, 0), j |-> JNull]

\* An int64.
IntAny(i) == [kind |-> "int64", s |-> "", i |-> i, j |-> JNull]

\* A float64, given by the text it was parsed from.
FloatAny(s) == [kind |-> "float64", s |-> s, i |-> Int64(0, 0), j |-> JNull]

\* A value decoded from JSON into interface{}.
JSONAny(j) ==
    IF j = JNull THEN NilAny ELSE [kind |-> "json", s |-> "", i |-> Int64(0, 0), j |-> j]

RECURSIVE TrimLeft(_)
TrimLeft(cs) == IF cs # <<>> /\ cs[1] = " " THEN TrimLeft(Tail(cs)) ELSE cs

RECURSIVE TrimRight(_)
TrimRight(cs) ==
    IF cs # <<>> /\ cs[Len(cs)] = " " THEN TrimRight(SubSeq(cs, 1, Len(cs) - 1)) ELSE cs

TrimSpace_None(cs) == cs

\* strings.TrimSpace, on characters.
TrimSpace(cs) == TrimRight(TrimLeft(cs))

\* strings.Count(s, c), on characters.
Count(cs, c) == Cardinality({i \in 1 .. Len(cs) : cs[i] = c})

\* The texts strconv.ParseFloat(s, 64) accepts, among those with a '.'.
Floats == {"86400.92", "1443571905.5606415"}

\* strconv.ParseFloat(s, 64).
ParseFloat(s) == [f |-> s, ok |-> s \in Floats]

Extra_FormOnly(t, key) ==
    IF t.Raw.kind = "url.Values" /\ key \in DOMAIN t.Raw.m
    THEN StringAny(Get(t.Raw.m, key)) ELSE NilAny

\* Token.Extra.
Extra(t, key) ==
    CASE t.Raw.kind = "map" ->
           IF key \in DOMAIN t.Raw.m THEN JSONAny(t.Raw.m[key]) ELSE NilAny
      [] t.Raw.kind = "url.Values" ->
           LET value == Get(t.Raw.m, key)
               s == TrimSpace(Chars(value))
           IN  IF Count(s, ".") = 0 /\ ParseInt64(String(s)).ok
               THEN IntAny(ParseInt64(String(s)).i)
               ELSE IF Count(s, ".") = 1 /\ ParseFloat(String(s)).ok
               THEN FloatAny(ParseFloat(String(s)).f)
               ELSE StringAny(value)
      [] OTHER -> NilAny

(* ------------------------------------------------------------------ *)
(* The HTTP response and parseResponse.                                 *)
(* ------------------------------------------------------------------ *)

Response(code, ctype, readErr, body) ==
    [StatusCode |-> code, ContentType |-> ctype, readErr |-> readErr, body |-> body]

NoResponse == Response(0, "", FALSE, NoBody)

\* http.StatusText.
StatusText(code) ==
    CASE code = 200 -> "OK"
      [] code = 300 -> "Multiple Choices"
      [] code = 400 -> "Bad Request"
      [] code = 500 -> "Internal Server Error"
      [] OTHER -> ""

responseContentType_Header(resp) == resp.ContentType

\* responseContentType: mime.ParseMediaType of the Content-Type header, its
\* error ignored.  The media type comes back in lower case and without its
\* parameters, also when a parameter is malformed; it is "" when the
\* header has no well-formed type/subtype.
responseContentType(resp) ==
    CASE resp.ContentType = "text/plain; charset=utf-8" -> "text/plain"
      [] resp.ContentType = "application/json; charset=utf-8" -> "application/json"
      [] resp.ContentType = "TEXT/PLAIN" -> "text/plain"
      [] resp.ContentType = "text/plain; charset" -> "text/plain"
      [] resp.ContentType = "text/plain/extra" -> ""
      [] OTHER -> resp.ContentType

BadStatus_UpTo300(code) == code < 200 \/ code > 300

\* The status check of parseResponse.
BadStatus(code) == code < 200 \/ code > 299

MissingAccessToken_Unchecked(token) == FALSE

\* The access token check of parseResponse.
MissingAccessToken(token) == token.AccessToken = ""

Closes_WhenRead(resp) == IF resp.readErr THEN 0 ELSE 1

\* The number of times parseResponse closes the body of resp: once, after
\* reading it and before looking at the outcome.
Closes(resp) == 1

\* parseResponse.  The body is read and closed first; a read error comes
\* before the status check.
parseResponse(resp, timeNow) ==
    IF resp.readErr THEN [token |-> NilToken, err |-> ErrRead]
    ELSE IF BadStatus(resp.StatusCode)
    THEN [token |-> NilToken,
          err |-> ErrStatus(resp.StatusCode, StatusText(resp.StatusCode), resp.body)]
    ELSE LET r == IF responseContentType(resp) \in {"text/plain", "application/x-www-form-urlencoded"}
                  THEN parseText(resp.body, timeNow)
                  ELSE parseJSON(resp.body, timeNow)
         IN  IF r.err # NoError THEN [token |-> NilToken, err |-> r.err]
             ELSE IF MissingAccessToken(r.token.t)
             THEN [token |-> NilToken, err |-> ErrMissingAccessToken]
             ELSE r

(* ------------------------------------------------------------------ *)
(* What the transport may answer to one request.                        *)
(* ------------------------------------------------------------------ *)

Answer(err, resp) == [err |-> err, resp |-> resp]

StatusCodes == {199, 200, 299, 300, 500}

ContentTypes ==
    {"application/json", "application/x-www-form-urlencoded",
     "text/plain; charset=utf-8", "", "text/html"}

JSONOk == JSONBody([access_token |-> JStr("ACCESS_TOKEN"), token_type |-> JStr("bearer")])

FormOk == FormBody([access_token |-> <<"ACCESS_TOKEN">>, token_type |-> <<"bearer">>])

Bodies ==
    {JSONOk,
     JSONBody([access_token |-> JStr("ACCESS_TOKEN"), refresh_token |-> JStr("NEW_REFRESH"),
               expires_in |-> JNum("11")]),
     JSONBody([scope |-> JStr("user")]),
     JSONBody([access_token |-> JStr("")]),
     JSONBody([access_token |-> JNum("11")]),
     JSONBody([access_token |-> JNull, token_type |-> JStr("bearer")]),
     FormOk,
     FormBody([access_token |-> <<"ACCESS_TOKEN">>, refresh_token |-> <<"NEW_REFRESH">>,
               expires_in |-> <<"10">>]),
     FormBody([scope |-> <<"user">>]),
     FormBody([access_token |-> <<"">>, token_type |-> <<"bearer">>]),
     GarbageBody}

\* Content-Type headers in other spellings: upper case, a parameter
\* without a value, a type with a second slash.
OddContentTypes == {"TEXT/PLAIN", "text/plain; charset", "text/plain/extra"}

\* JSON bodies with an access_token and one value of expires_in each.
ExpiresInBodies ==
    {JSONBody([access_token |-> JStr("ACCESS_TOKEN"), expires_in |-> e]) :
        e \in {JNum("0"), JNum("-3"), JNum("1.5"), JStr("10"), JStr("abc"), JNull,
               JBool("false"), JObject}}

\* Form bodies with an access_token and one value of expires_in each.
ExpiresInForms ==
    {FormBody([access_token |-> <<"ACCESS_TOKEN">>, expires_in |-> <<e>>]) :
        e \in {"0", "-3", "abc", "1.5", "99999999999999999999"}}

Responses ==
    {Response(200, ct, FALSE, b) : ct \in ContentTypes, b \in Bodies}
    \cup {Response(200, "application/x-www-form-urlencoded", FALSE, b) : b \in ExpiresInForms}
    \cup {Response(200, ct, FALSE, b) : ct \in OddContentTypes, b \in {JSONOk, FormOk}}
    \cup {Response(200, "application/json", FALSE, b) : b \in ExpiresInBodies}
    \cup {Response(code, "application/json", FALSE, JSONOk) : code \in StatusCodes}
    \cup {Response(500, "application/x-www-form-urlencoded", FALSE, b) : b \in {FormOk, GarbageBody}}
    \cup {Response(code, "application/json", TRUE, JSONOk) : code \in {200, 500}}

\* client.Do: an error when the context is done, else an error or a response.
Answers(ctxDone) ==
    IF ctxDone THEN {Answer(ErrContextCanceled, NoResponse)}
    ELSE {Answer(ErrConnectionRefused, NoResponse)}
         \cup {Answer(NoError, r) : r \in Responses}

\* What doRequest returns: r is what newTokenRequest returned, t what
\* parseResponse returns for the response of answer.
Requested(r, answer, t) ==
    IF r.err # NoError
    THEN [token |-> NilToken, err |-> r.err, req |-> r.req, sent |-> FALSE,
          params |-> r.params, closed |-> 0]
    ELSE IF answer.err # NoError
    THEN [token |-> NilToken, err |-> answer.err, req |-> r.req, sent |-> TRUE,
          params |-> r.params, closed |-> 0]
    ELSE [token |-> t.token, err |-> t.err, req |-> r.req, sent |-> TRUE,
          params |-> r.params, closed |-> Closes(answer.resp)]

\* Client.doRequest, given the transport's answer should the request be sent.
\* closed is the number of times the body of the response has been closed
\* when doRequest returns.
doRequest(cfg, mode, params, answer, timeNow) ==
    Requested(newTokenRequest(cfg, mode, params), answer, parseResponse(answer.resp, timeNow))

(* ------------------------------------------------------------------ *)
(* The calls.  call[p] is the call that caller p has in progress or has *)
(* last finished: its arguments, the locals of retrieveToken, the       *)
(* attempts (doRequest calls) made so far, the transport's answer to    *)
(* the latest of them, and what the call returned.                      *)
(* ------------------------------------------------------------------ *)

Callers == {1}

NoAnswer == Answer(NoError, NoResponse)

IdleCall ==
    [pc |-> "idle", op |-> "", ctxDone |-> FALSE, refreshToken |-> "",
     extra |-> NilValues, caller |-> NilValues, params |-> EmptyValues, shouldGuessAuthMode |-> FALSE, mode |-> AutoDetectMode,
     attempts |-> <<>>, writes |-> 0, answer |-> NoAnswer, token |-> NilToken, err |-> NoError]

CanCall(p) == call[p].pc \in {"idle", "done"}

InFlight(p) == call[p].pc \in {"first", "second"}

Attempt(mode, r) ==
    [mode |-> mode, req |-> r.req, sent |-> r.sent, token |-> r.token, err |-> r.err,
     closed |-> r.closed]

Return_NoToken(c, token, err) == [c EXCEPT !.pc = "done", !.token = NilToken, !.err = err]

\* A call returns (token, err).
Return(c, token, err) == [c EXCEPT !.pc = "done", !.token = token, !.err = err]

FirstMode_Params(stored) == IF stored = AutoDetectMode THEN InParamsMode ELSE stored

\* The mode of the first attempt, from the stored mode.
FirstMode(stored) == IF stored = AutoDetectMode THEN InHeaderMode ELSE stored

\* The mode of the second attempt.
SecondMode == InParamsMode

ShouldRetry_Always(shouldGuessAuthMode, err) == err # NoError

ShouldRetry_NotWhenCanceled(shouldGuessAuthMode, err) ==
    err # NoError /\ shouldGuessAuthMode /\ err # ErrContextCanceled

\* Whether a first attempt that ended with err is followed by a second one.
ShouldRetry(shouldGuessAuthMode, err) == err # NoError /\ shouldGuessAuthMode

StoredMode_Always(stored, mode, err) == mode

StoredMode_Never(stored, mode, err) == stored

\* c.config.Mode after an attempt in mode that ended with err.
StoredMode(stored, mode, err) == IF err = NoError THEN mode ELSE stored

\* retrieveToken up to its first doRequest: the stored mode is read once.
retrieveToken(p, op, ctxDone, refreshToken, extra, params) ==
    /\ call' = [call EXCEPT ![p] =
                  [IdleCall EXCEPT !.pc = "first", !.op = op, !.ctxDone = ctxDone,
                                   !.refreshToken = refreshToken, !.extra = extra,
                                   !.caller = Written(extra, params),
                                   !.params = params,
                                   !.shouldGuessAuthMode = (config.Mode = AutoDetectMode),
                                   !.mode = FirstMode(config.Mode)]]
    /\ UNCHANGED <<config, now, tok, url, expiresIn>>

ExtraParams ==
    {Values(EmptyValues),
     Values([param1 |-> <<"value1">>]),
     Values([grant_type |-> <<"evil">>, code |-> <<"OTHER_CODE">>,
             redirect_uri |-> <<"OTHER_URL">>, param1 |-> <<"value1">>])}

ExchangeWithParams_Override(p, ctxDone, code, params) ==
    /\ CanCall(p)
    /\ LET c == cloneURLValues(params)
           v1 == [grant_type |-> <<"authorization_code">>, code |-> <<code>>]
           v2 == IF config.RedirectURL # "" THEN Set(v1, "redirect_uri", config.RedirectURL) ELSE v1
       IN  retrieveToken(p, "Exchange", ctxDone, "", params,
                         [k \in (DOMAIN c) \cup (DOMAIN v2) |-> IF k \in DOMAIN c THEN c[k] ELSE v2[k]])

\* Client.ExchangeWithParams.
ExchangeWithParams(p, ctxDone, code, params) ==
    /\ CanCall(p)
    /\ LET v1 == Add(Add(cloneURLValues(params), "grant_type", "authorization_code"), "code", code)
           v2 == IF config.RedirectURL # "" THEN Set(v1, "redirect_uri", config.RedirectURL) ELSE v1
       IN  retrieveToken(p, "Exchange", ctxDone, "", params, v2)

\* Client.Exchange.
Exchange(p, ctxDone, code) == ExchangeWithParams(p, ctxDone, code, NilValues)

CredentialsToken_NoScope(p, ctxDone, username, password) ==
    /\ CanCall(p)
    /\ retrieveToken(p, "CredentialsToken", ctxDone, "", NilValues,
                     [grant_type |-> <<"password">>, username |-> <<username>>,
                      password |-> <<password>>])

\* Client.CredentialsToken.
CredentialsToken(p, ctxDone, username, password) ==
    /\ CanCall(p)
    /\ LET v1 == [grant_type |-> <<"password">>, username |-> <<username>>,
                  password |-> <<password>>]
           v2 == IF Len(config.Scopes) > 0 THEN Set(v1, "scope", Join(config.Scopes, " ")) ELSE v1
       IN  retrieveToken(p, "CredentialsToken", ctxDone, "", NilValues, v2)

Token_NoCheck(p, ctxDone, refreshToken) ==
    /\ CanCall(p)
    /\ retrieveToken(p, "Token", ctxDone, refreshToken, NilValues,
                     [grant_type |-> <<"refresh_token">>, refresh_token |-> <<refreshToken>>])

\* Client.Token.
Token(p, ctxDone, refreshToken) ==
    /\ CanCall(p)
    /\ IF refreshToken = ""
       THEN /\ call' = [call EXCEPT ![p] =
                          Return([IdleCall EXCEPT !.op = "Token", !.ctxDone = ctxDone],
                                 NilToken, ErrRefreshTokenNotSet)]
            /\ UNCHANGED <<config, now, tok, url, expiresIn>>
       ELSE retrieveToken(p, "Token", ctxDone, refreshToken, NilValues,
                          [grant_type |-> <<"refresh_token">>, refresh_token |-> <<refreshToken>>])

\* The number of assignments to c.config.Mode after an attempt that ended
\* with err.
Writes(err) == IF err = NoError THEN 1 ELSE 0

\* The call c with the attempt that doRequest ended with r.
Attempted(c, r, answer) ==
    [c EXCEPT !.attempts = Append(@, Attempt(c.mode, r)),
              !.params = r.params,
              !.writes = @ + Writes(r.err),
              !.answer = IF r.sent THEN answer ELSE NoAnswer]

\* What retrieveToken does with the result r of its first doRequest.
AfterFirst(p, c, r, answer) ==
    /\ config' = [config EXCEPT !.Mode = StoredMode(@, c.mode, r.err)]
    /\ call' = [call EXCEPT ![p] =
                  IF r.err = NoError THEN Return(Attempted(c, r, answer), r.token, NoError)
                  ELSE IF ShouldRetry(c.shouldGuessAuthMode, r.err)
                  THEN [Attempted(c, r, answer) EXCEPT !.pc = "second", !.mode = SecondMode]
                  ELSE Return(Attempted(c, r, answer), NilToken, r.err)]

\* What retrieveToken does with the result r of its second doRequest.
AfterSecond(p, c, r, answer) ==
    /\ config' = [config EXCEPT !.Mode = StoredMode(@, c.mode, r.err)]
    /\ call' = [call EXCEPT ![p] =
                  IF r.err # NoError THEN Return(Attempted(c, r, answer), NilToken, r.err)
                  ELSE Return(Attempted(c, r, answer), r.token, NoError)]

\* retrieveToken from its first doRequest to the return or the fallback,
\* given the transport's answer.
FirstAttemptWith(p, answer) ==
    /\ call[p].pc = "first"
    /\ AfterFirst(p, call[p], doRequest(config, call[p].mode, call[p].params, answer, now), answer)
    /\ UNCHANGED <<now, tok, url, expiresIn>>

FirstAttempt(p) == \E answer \in Answers(call[p].ctxDone) : FirstAttemptWith(p, answer)

\* retrieveToken from its second doRequest to the return, given the
\* transport's answer.
SecondAttemptWith(p, answer) ==
    /\ call[p].pc = "second"
    /\ AfterSecond(p, call[p], doRequest(config, call[p].mode, call[p].params, answer, now), answer)
    /\ UNCHANGED <<now, tok, url, expiresIn>>

SecondAttempt(p) == \E answer \in Answers(call[p].ctxDone) : SecondAttemptWith(p, answer)

\* The caller cancels the context of its call in progress.
Cancel(p) ==
    /\ InFlight(p)
    /\ ~call[p].ctxDone
    /\ call' = [call EXCEPT ![p].ctxDone = TRUE]
    /\ UNCHANGED <<config, now, tok, url, expiresIn>>

\* Time passes.
Tick ==
    /\ now < MaxTime
    /\ now' = now + 1
    /\ UNCHANGED <<config, call, tok, url, expiresIn>>

\* No expires_in decoded yet.
NoExpiresIn == [set |-> FALSE, b |-> JNull, n |-> 0, ok |-> TRUE]

\* No AuthCodeURL call yet.
NoURL ==
    [op |-> "", state |-> "", params |-> NilValues, caller |-> NilValues, result |-> <<>>]

Init ==
    /\ config \in Configs
    /\ call = [p \in Callers |-> IdleCall]
    /\ now = 1
    /\ tok = NilToken
    /\ url = NoURL
    /\ expiresIn = NoExpiresIn

Next ==
    \/ \E p \in Callers, ctxDone \in BOOLEAN : Exchange(p, ctxDone, "CODE")
    \/ \E p \in Callers, ctxDone \in BOOLEAN, params \in ExtraParams :
         ExchangeWithParams(p, ctxDone, "CODE", params)
    \/ \E p \in Callers, ctxDone \in BOOLEAN : CredentialsToken(p, ctxDone, "user1", "password1")
    \/ \E p \in Callers, ctxDone \in BOOLEAN, refreshToken \in {"", "REFRESH"} :
         Token(p, ctxDone, refreshToken)
    \/ \E p \in Callers : FirstAttempt(p)
    \/ \E p \in Callers : SecondAttempt(p)
    \/ \E p \in Callers : Cancel(p)
    \/ Tick

Spec == Init /\ [][Next]_vars

(* ------------------------------------------------------------------ *)
(* Tokens in the application's hands: tok is any *Token, a struct       *)
(* literal included, looked at as time passes.                          *)
(* ------------------------------------------------------------------ *)

\* One hour, in seconds.
Hour == 3600

\* Expiry times around the clock's values, and one hour before them.
TokenTimes == (0 .. (MaxTime + expiryDelta + 1)) \cup {t - Hour : t \in 1 .. MaxTime}

\* The form values of TestExtraValueRetrieval, and some more.
ExtraValues ==
    [scope |-> <<"user">>, token_type |-> <<"bearer">>, expires_in |-> <<"86400.92">>,
     server_time |-> <<"1443571905.5606415">>, referer_ip |-> <<"10.0.0.1">>,
     request_id |-> <<"86400">>, untrimmed |-> <<"  untrimmed  ">>,
     padded |-> <<" 86400 ">>, login |-> <<"user.name">>, retries |-> <<"10", "11">>,
     huge |-> <<"99999999999999999999">>]

\* The JSON fields of TestTokenExtra, and some more.
ExtraFields ==
    [extra_key |-> JStr("abc"), count |-> JNum("11"), text |-> JStr("86400"),
     empty |-> JStr(""), nothing |-> JNull]

\* What the Raw of a Token may hold.
Raws ==
    {NoRaw,
     [kind |-> "url.Values", m |-> ExtraValues],
     [kind |-> "url.Values", m |-> EmptyValues],
     [kind |-> "map", m |-> ExtraFields],
     [kind |-> "map[string]string", m |-> [scope |-> "user", request_id |-> "86400"]]}

\* The keys Extra is asked for.
ExtraKeys ==
    {"scope", "expires_in", "server_time", "referer_ip", "request_id", "untrimmed",
     "padded", "login", "retries", "huge", "extra_key", "count", "text", "empty",
     "nothing", "other_key"}

Tokens ==
    {NilToken} \cup
    {Ptr(MakeToken(a, ty, "", e, NoRaw)) :
        a \in {"", "ACCESS_TOKEN"}, ty \in TokenTypes,
        e \in {ZeroTime} \cup {TimeAt(t) : t \in TokenTimes}}
    \cup {Ptr(MakeToken("ACCESS_TOKEN", "bearer", "", ZeroTime, raw)) : raw \in Raws}

InitToken ==
    /\ config \in {c \in Configs : c.Mode = AutoDetectMode /\ c.ClientID = "" /\ c.ClientSecret = ""
                                   /\ c.TokenURL # BadTokenURL /\ c.RedirectURL = ""}
    /\ call = [p \in Callers |-> IdleCall]
    /\ now = 1
    /\ tok \in Tokens
    /\ url = NoURL
    /\ expiresIn = NoExpiresIn

NextToken == Tick

SpecToken == InitToken /\ [][NextToken]_vars

\* The first instant at which every token of the model with an Expiry is
\* expired.
Horizon == MaxTime + 2

\* Time passes, up to the horizon.
TickOn ==
    /\ now < Horizon
    /\ now' = now + 1
    /\ UNCHANGED <<config, call, tok, url, expiresIn>>

NextTokenLive == TickOn

\* A Token that is left alone while time goes on.
SpecTokenLive == InitToken /\ [][NextTokenLive]_vars /\ WF_vars(TickOn)

(* ------------------------------------------------------------------ *)
(* The consent-page URL.  url is what the last AuthCodeURL call was     *)
(* given and what it returned.                                          *)
(* ------------------------------------------------------------------ *)

URLConfigs ==
    [ClientID : {"", "CLIENT_ID"},
     ClientSecret : {"CLIENT_SECRET"},
     AuthURL : {"server:1234/auth", "server:1234/auth?foo=bar", "server:1234/auth?"},
     TokenURL : {"server/token"},
     Mode : {AutoDetectMode},
     RedirectURL : {"", "REDIRECT_URL"},
     Scopes : {<<>>, <<"scope1", "scope2">>}]

States == {"", "test-state", "a&b=c"}

URLParams ==
    {Values([access_type |-> <<"anything">>, param1 |-> <<"value1">>]),
     Values([param1 |-> <<"1+1", "value1">>]),
     Values([response_type |-> <<"token">>]),
     Values([client_id |-> <<"OTHER_ID">>, param1 |-> <<"value1">>]),
     Values([redirect_uri |-> <<"OTHER_URL">>, scope |-> <<"admin">>, state |-> <<"other-state">>])}

Separator_Question(AuthURL) == "?"

\* The byte written after AuthURL.
Separator(AuthURL) ==
    IF \E i \in 1 .. Len(Chars(AuthURL)) : Chars(AuthURL)[i] = "?" THEN "&" ELSE "?"

\* The parameters AuthCodeURLWithParams encodes.
AuthCodeValues(cfg, state, params) ==
    LET v1 == Add(Add(cloneURLValues(params), "response_type", "code"), "client_id", cfg.ClientID)
        v2 == IF cfg.RedirectURL # "" THEN Set(v1, "redirect_uri", cfg.RedirectURL) ELSE v1
        v3 == IF Len(cfg.Scopes) > 0 THEN Set(v2, "scope", Join(cfg.Scopes, " ")) ELSE v2
    IN  IF state # "" THEN Set(v3, "state", state) ELSE v3

\* Client.AuthCodeURLWithParams.
AuthCodeURLWithParams(state, params) ==
    /\ url' = [op |-> "AuthCodeURLWithParams", state |-> state, params |-> params,
               caller |-> Written(params, AuthCodeValues(config, state, params)),
               result |-> Chars(config.AuthURL) \o <<Separator(config.AuthURL)>>
                          \o EncodeText(AuthCodeValues(config, state, params))]
    /\ UNCHANGED <<config, call, now, tok, expiresIn>>

\* Client.AuthCodeURL.
AuthCodeURL(state) ==
    /\ url' = [op |-> "AuthCodeURL", state |-> state, params |-> NilValues,
               caller |-> Written(NilValues, AuthCodeValues(config, state, NilValues)),
               result |-> Chars(config.AuthURL) \o <<Separator(config.AuthURL)>>
                          \o EncodeText(AuthCodeValues(config, state, NilValues))]
    /\ UNCHANGED <<config, call, now, tok, expiresIn>>

InitURL ==
    /\ config \in URLConfigs
    /\ call = [p \in Callers |-> IdleCall]
    /\ now = 1
    /\ tok = NilToken
    /\ url = NoURL
    /\ expiresIn = NoExpiresIn

NextURL ==
    \/ \E state \in States : AuthCodeURL(state)
    \/ \E state \in States, params \in URLParams : AuthCodeURLWithParams(state, params)

SpecURL == InitURL /\ [][NextURL]_vars

(* ------------------------------------------------------------------ *)
(* The calls that take parameters of the caller.  params and caller of  *)
(* url and of call[p] are the caller's map as it was given and as it is *)
(* after the call.                                                      *)
(* ------------------------------------------------------------------ *)

FrameConfigs ==
    {c \in Configs : c.ClientID # "" /\ c.ClientSecret # "" /\ c.TokenURL # BadTokenURL}

\* The parameters of the caller: nil, an empty map, a map with keys that
\* the calls add or set themselves.
FrameParams ==
    {NilValues, Values(EmptyValues),
     Values([grant_type |-> <<"evil">>, code |-> <<"OTHER_CODE">>,
             redirect_uri |-> <<"OTHER_URL">>, param1 |-> <<"value1">>])}

InitFrame ==
    /\ config \in FrameConfigs
    /\ call = [p \in Callers |-> IdleCall]
    /\ now = 1
    /\ tok = NilToken
    /\ url = NoURL
    /\ expiresIn = NoExpiresIn

NextFrame ==
    \/ \E params \in FrameParams : AuthCodeURLWithParams("test-state", params)
    \/ \E p \in Callers, ctxDone \in BOOLEAN, params \in FrameParams :
         ExchangeWithParams(p, ctxDone, "CODE", params)
    \/ \E p \in Callers : FirstAttempt(p)
    \/ \E p \in Callers : SecondAttempt(p)

SpecFrame == InitFrame /\ [][NextFrame]_vars

(* ------------------------------------------------------------------ *)
(* Two goroutines calling one Client.  Nothing orders the read of       *)
(* c.config.Mode at the start of retrieveToken and the writes after a   *)
(* successful attempt: a read sees the initial mode or any mode written *)
(* so far by a step that came before it, and the last write stays.      *)
(* Each goroutine makes one call.                                       *)
(* ------------------------------------------------------------------ *)

Goroutines == {1, 2}

ConcurrentConfigs ==
    {c \in Configs : /\ c.ClientID # "" /\ c.ClientSecret # "" /\ c.TokenURL # BadTokenURL
                     /\ c.RedirectURL = "" /\ c.Mode = AutoDetectMode}

\* What the transport answers: an error, a failure, a token.
ConcurrentAnswers ==
    {Answer(ErrConnectionRefused, NoResponse),
     Answer(NoError, Response(500, "application/json", FALSE, JSONOk)),
     Answer(NoError, Response(200, "application/json", FALSE, JSONOk))}

InitConcurrent ==
    /\ config \in ConcurrentConfigs
    /\ call = [p \in Goroutines |-> IdleCall]
    /\ now = 1
    /\ tok = NilToken
    /\ url = NoURL
    /\ expiresIn = NoExpiresIn

NextConcurrent ==
    \/ \E p \in Goroutines : call[p].pc = "idle" /\ Exchange(p, FALSE, "CODE")
    \/ \E p \in Goroutines : call[p].pc = "idle" /\ Token(p, FALSE, "REFRESH")
    \/ \E p \in Goroutines, answer \in ConcurrentAnswers : FirstAttemptWith(p, answer)
    \/ \E p \in Goroutines, answer \in ConcurrentAnswers : SecondAttemptWith(p, answer)

SpecConcurrent == InitConcurrent /\ [][NextConcurrent]_vars

(* ------------------------------------------------------------------ *)
(* The calls, with a transport that answers every request it is sent:   *)
(* a call that waits for an answer gets one.                            *)
(* ------------------------------------------------------------------ *)

\* What the transport answers: errors, failures, tokens.
LiveAnswers(ctxDone) ==
    IF ctxDone THEN {Answer(ErrContextCanceled, NoResponse)}
    ELSE ConcurrentAnswers
         \cup {Answer(NoError, Response(200, "application/json", TRUE, JSONOk)),
               Answer(NoError, Response(200, "application/json", FALSE, GarbageBody)),
               Answer(NoError, Response(200, "application/json", FALSE,
                                        JSONBody([scope |-> JStr("user")])))}

NextLive ==
    \/ \E p \in Callers, ctxDone \in BOOLEAN : Exchange(p, ctxDone, "CODE")
    \/ \E p \in Callers, ctxDone \in BOOLEAN, params \in ExtraParams :
         ExchangeWithParams(p, ctxDone, "CODE", params)
    \/ \E p \in Callers, ctxDone \in BOOLEAN : CredentialsToken(p, ctxDone, "user1", "password1")
    \/ \E p \in Callers, ctxDone \in BOOLEAN, refreshToken \in {"", "REFRESH"} :
         Token(p, ctxDone, refreshToken)
    \/ \E p \in Callers : \E answer \in LiveAnswers(call[p].ctxDone) : FirstAttemptWith(p, answer)
    \/ \E p \in Callers : \E answer \in LiveAnswers(call[p].ctxDone) : SecondAttemptWith(p, answer)
    \/ \E p \in Callers : Cancel(p)

Answering(p) ==
    \/ \E answer \in LiveAnswers(call[p].ctxDone) : FirstAttemptWith(p, answer)
    \/ \E answer \in LiveAnswers(call[p].ctxDone) : SecondAttemptWith(p, answer)

SpecLive == Init /\ [][NextLive]_vars /\ \A p \in Callers : WF_vars(Answering(p))

(* ------------------------------------------------------------------ *)
(* The decoding of expires_in.  expiresIn is the JSON value last given  *)
(* to expirationTime.UnmarshalJSON and what it stored.                  *)
(* ------------------------------------------------------------------ *)

\* The values of expires_in: integers, as numbers and as strings, and others.
ExpiresInValues ==
    {JNum(s) : s \in (DOMAIN Numerals) \cup (DOMAIN BigNumerals)}
    \cup {JStr(s) : s \in (DOMAIN Numerals) \cup (DOMAIN BigNumerals)}
    \cup {JNull, JBool("false"), JObject, JStr("abc"), JNum("1.5"),
          JNum("9223372036854775808")}

\* json.Unmarshal of the field expires_in of tokenJSON.
UnmarshalExpiresIn(b) ==
    /\ expiresIn' = [set |-> TRUE, b |-> b, n |-> UnmarshalJSON(b).n, ok |-> UnmarshalJSON(b).ok]
    /\ UNCHANGED <<config, call, now, tok, url>>

InitExpiresIn ==
    /\ config \in {c \in Configs : c.Mode = AutoDetectMode /\ c.ClientID = "" /\ c.ClientSecret = ""
                                   /\ c.TokenURL # BadTokenURL /\ c.RedirectURL = ""}
    /\ call = [p \in Callers |-> IdleCall]
    /\ now = 1
    /\ tok = NilToken
    /\ url = NoURL
    /\ expiresIn = NoExpiresIn

NextExpiresIn == \E b \in ExpiresInValues : UnmarshalExpiresIn(b)

SpecExpiresIn == InitExpiresIn /\ [][NextExpiresIn]_vars

(* ------------------------------------------------------------------ *)
(* Properties.  An attempt is one doRequest call; its request reaches   *)
(* the transport when it can be built (sent).                           *)
(* ------------------------------------------------------------------ *)

\* The call went into retrieveToken.
Entered(c) == c.pc # "idle" /\ ~(c.op = "Token" /\ c.refreshToken = "")

Finished(c) == c.pc = "done" /\ Entered(c)

\* The request of attempt a carries HTTP Basic credentials and none in its body.
InHeaderStyle(a) ==
    /\ a.mode = InHeaderMode
    /\ a.sent => a.req.Authorization.set

\* The request of attempt a carries no Authorization header.
InParamsStyle(a) ==
    /\ a.mode = InParamsMode
    /\ a.sent => ~a.req.Authorization.set

\* The first attempt in InHeaderMode failed and the second, in InParamsMode, succeeded.
FellBack(c) ==
    /\ Finished(c)
    /\ c.shouldGuessAuthMode
    /\ Len(c.attempts) = 2
    /\ c.attempts[1].err # NoError
    /\ c.attempts[2].err = NoError

\* Both attempts of an auto-detecting call failed.
BothFailed(c) ==
    /\ Finished(c)
    /\ c.shouldGuessAuthMode
    /\ Len(c.attempts) = 2
    /\ c.attempts[1].err # NoError
    /\ c.attempts[2].err # NoError

\* C1: a call that found the stored mode AutoDetect makes its first attempt
\* in InHeader style; it makes a second attempt, in InParams style, exactly
\* when the first one failed, and then returns what the second attempt
\* gave; it never makes a third.
C1_AutoDetectAttempts ==
    \A p \in Callers :
        LET c == call[p]
            n == Len(c.attempts)
        IN  (Entered(c) /\ c.shouldGuessAuthMode) =>
              /\ n <= 2
              /\ (c.pc = "first") => (n = 0)
              /\ (c.pc = "second") => (n = 1 /\ c.attempts[1].err # NoError)
              /\ (n >= 1) => InHeaderStyle(c.attempts[1])
              /\ (n = 2) => InParamsStyle(c.attempts[2])
              /\ (c.pc = "done") =>
                    /\ n >= 1
                    /\ (c.attempts[1].err # NoError) <=> (n = 2)
                    /\ c.err = c.attempts[n].err
                    /\ c.token = c.attempts[n].token

C1_Witness ==
    \E p \in Callers :
        /\ FellBack(call[p])
        /\ call[p].attempts[1].sent
        /\ call[p].attempts[2].sent
        /\ ~call[p].token.isNil

\* C2: when a call falls back and the fallback succeeds, the stored mode is
\* InParams; from then on the stored mode stays InParams and every call
\* makes one attempt, in InParams style, and no InHeader attempt.
C2_Step ==
    \A p \in Callers :
        LET c == call[p]
            d == call'[p]
        IN  /\ FellBack(d) => config'.Mode = InParamsMode
            /\ (config.Mode = InParamsMode) =>
                 /\ config'.Mode = InParamsMode
                 /\ (d # c) =>
                      /\ ~d.shouldGuessAuthMode
                      /\ d.pc # "second"
                      /\ Len(d.attempts) <= 1
                      /\ \A i \in 1 .. Len(d.attempts) : InParamsStyle(d.attempts[i])
                      /\ Finished(d) => Len(d.attempts) = 1

C2_CachedInParams == [][C2_Step]_vars

C2_Witness ==
    \E p \in Callers :
        /\ FellBack(call[p])
        /\ call[p].attempts[2].sent
        /\ config.Mode = InParamsMode

\* C2, the later call: a finished call that found InParams stored.
C2_WitnessLater ==
    \E p \in Callers :
        /\ Finished(call[p])
        /\ ~call[p].shouldGuessAuthMode
        /\ config.Mode = InParamsMode

\* C3: when the token parsed from a successful response has no refresh
\* token, the returned Token carries the refresh_token sent in the request.
C3_RefreshTokenCarried ==
    \A p \in Callers :
        LET c == call[p]
        IN  (Finished(c) /\ c.err = NoError
             /\ parseResponse(c.answer.resp, now).token.t.RefreshToken = "")
            => c.token.t.RefreshToken = Get(c.params, "refresh_token")

\* C4: a call that found InHeader or InParams stored makes exactly one
\* attempt, in that mode, and returns its error when it fails.
C4_FixedModeOneAttempt ==
    \A p \in Callers :
        LET c == call[p]
            n == Len(c.attempts)
        IN  (Entered(c) /\ ~c.shouldGuessAuthMode) =>
              /\ c.mode \in {InHeaderMode, InParamsMode}
              /\ config.Mode = c.mode
              /\ c.pc \in {"first", "done"}
              /\ (c.pc = "first") => (n = 0)
              /\ (c.pc = "done") =>
                    /\ n = 1
                    /\ c.attempts[1].mode = c.mode
                    /\ (c.mode = InHeaderMode) => InHeaderStyle(c.attempts[1])
                    /\ (c.mode = InParamsMode) => InParamsStyle(c.attempts[1])
                    /\ c.err = c.attempts[1].err
                    /\ (c.err # NoError) => c.token.isNil

C4_Witness ==
    \E p \in Callers :
        /\ Finished(call[p])
        /\ ~call[p].shouldGuessAuthMode
        /\ call[p].attempts[1].sent
        /\ call[p].err # NoError

\* C5: when both attempts of an auto-detecting call fail, the call returns
\* the second attempt's error and no token, the stored mode is still
\* AutoDetect, and the next call starts in InHeader mode again.
C5_Step ==
    \A p \in Callers :
        LET c == call[p]
            d == call'[p]
        IN  BothFailed(c) =>
              /\ c.err = c.attempts[2].err
              /\ c.token.isNil
              /\ config.Mode = AutoDetectMode
              /\ (d.pc = "first") => (d.shouldGuessAuthMode /\ d.mode = InHeaderMode)

C5_BothFail == [][C5_Step]_vars

C5_Witness ==
    \E p \in Callers :
        /\ BothFailed(call[p])
        /\ call[p].attempts[1].sent
        /\ call[p].attempts[2].sent
        /\ call[p].attempts[1].err # call[p].attempts[2].err

\* The latest attempt of call c was answered by the transport with a response.
Answered(c) ==
    /\ Len(c.attempts) >= 1
    /\ c.attempts[Len(c.attempts)].sent
    /\ c.answer.err = NoError

LastAttempt(c) == c.attempts[Len(c.attempts)]

\* The first attempt of an auto-detecting call failed on a done context.
CanceledFirst(c) ==
    /\ Finished(c)
    /\ c.shouldGuessAuthMode
    /\ c.ctxDone
    /\ c.attempts[1].err = ErrContextCanceled

\* C6 as stated: with AutoDetect stored and the context done, the call
\* fails and exactly one attempt is made.
C6_Original ==
    \A p \in Callers :
        CanceledFirst(call[p]) => (call[p].err # NoError /\ Len(call[p].attempts) = 1)

\* C6, amended: with AutoDetect stored and the context done, the call fails
\* with the context's error, and the failed first attempt is followed by
\* the second, InParams attempt, which fails the same way: two attempts are
\* made, and the stored mode stays AutoDetect.
C6_CanceledStillRetries ==
    \A p \in Callers :
        LET c == call[p]
        IN  CanceledFirst(c) =>
              /\ Len(c.attempts) = 2
              /\ InHeaderStyle(c.attempts[1])
              /\ InParamsStyle(c.attempts[2])
              /\ c.attempts[2].err = ErrContextCanceled
              /\ c.err = ErrContextCanceled
              /\ c.token.isNil
              /\ config.Mode = AutoDetectMode

C6_Witness ==
    \E p \in Callers :
        /\ CanceledFirst(call[p])
        /\ call[p].attempts[2].sent

BodyPairs(body) == {body[i] : i \in 1 .. Len(body)}

\* The body parameters of a refresh request in the given mode.
RefreshBody(mode, refreshToken) ==
    {[key |-> "grant_type", value |-> "refresh_token"],
     [key |-> "refresh_token", value |-> refreshToken]}
    \cup (IF mode = InParamsMode /\ config.ClientID # ""
          THEN {[key |-> "client_id", value |-> config.ClientID]} ELSE {})
    \cup (IF mode = InParamsMode /\ config.ClientSecret # ""
          THEN {[key |-> "client_secret", value |-> config.ClientSecret]} ELSE {})

\* C7: Token with an empty refreshToken returns an error and no token,
\* makes no attempt and leaves the stored mode as it is; with a non-empty
\* refreshToken the body of every request is grant_type=refresh_token and
\* refresh_token=<refreshToken>, plus the non-empty client credentials in
\* InParams mode.
C7_Step ==
    \A p \in Callers :
        LET d == call'[p]
        IN  (d.op = "Token" /\ d.pc # "idle") =>
              IF d.refreshToken = ""
              THEN /\ d.pc = "done"
                   /\ d.err = ErrRefreshTokenNotSet
                   /\ d.token.isNil
                   /\ d.attempts = <<>>
                   /\ config' = config
              ELSE \A i \in 1 .. Len(d.attempts) :
                     d.attempts[i].sent =>
                       /\ BodyPairs(d.attempts[i].req.Body)
                            = RefreshBody(d.attempts[i].mode, d.refreshToken)
                       /\ Len(d.attempts[i].req.Body)
                            = Cardinality(RefreshBody(d.attempts[i].mode, d.refreshToken))

C7_TokenRefresh == [][C7_Step]_vars

C7_Witness ==
    \E p \in Callers :
        /\ call[p].op = "Token"
        /\ call[p].refreshToken = ""
        /\ call[p].pc = "done"
        /\ config.Mode = AutoDetectMode

\* C7, the other case: a refresh request sent in InParams mode with credentials.
C7_WitnessSent ==
    \E p \in Callers :
        /\ call[p].op = "Token"
        /\ call[p].refreshToken # ""
        /\ Answered(call[p])
        /\ LastAttempt(call[p]).mode = InParamsMode
        /\ Len(LastAttempt(call[p]).req.Body) = 4

\* C8 as stated: a response with a status outside [200,299] gives no token
\* and the error that carries the status code, the status text and the body.
C8_Original ==
    \A p \in Callers :
        LET c == call[p]
            r == c.answer.resp
        IN  (Answered(c) /\ (r.StatusCode < 200 \/ r.StatusCode > 299)) =>
              /\ LastAttempt(c).token.isNil
              /\ LastAttempt(c).err = ErrStatus(r.StatusCode, StatusText(r.StatusCode), r.body)

\* C8, amended: a response with a status outside [200,299] never gives a
\* token, whatever its body or Content-Type; when its body is read without
\* error the attempt's error carries the status code, the status text and
\* the body, and when reading the body fails the error is the read error.
C8_StatusError ==
    \A p \in Callers :
        LET c == call[p]
            r == c.answer.resp
        IN  (Answered(c) /\ (r.StatusCode < 200 \/ r.StatusCode > 299)) =>
              /\ LastAttempt(c).token.isNil
              /\ LastAttempt(c).err =
                    IF r.readErr THEN ErrRead
                    ELSE ErrStatus(r.StatusCode, StatusText(r.StatusCode), r.body)

C8_Witness ==
    \E p \in Callers :
        /\ Answered(call[p])
        /\ call[p].answer.resp.StatusCode = 500
        /\ call[p].answer.resp.body = FormOk
        /\ LastAttempt(call[p]).err = ErrStatus(500, "Internal Server Error", FormOk)

\* The body has no access_token a parser can take: absent, empty, or not a string.
NoAccessToken(body) ==
    \/ "access_token" \notin DOMAIN body.fields
    \/ body.syntax = "form" /\ body.fields["access_token"][1] = ""
    \/ body.syntax = "json" /\ body.fields["access_token"].t # "string"
    \/ body.syntax = "json" /\ body.fields["access_token"].lit = ""

\* C9: a 2xx response without a usable access_token gives an error and no
\* token, and every returned Token has a non-empty AccessToken.
C9_AccessTokenRequired ==
    \A p \in Callers :
        LET c == call[p]
            r == c.answer.resp
        IN  /\ (Answered(c) /\ r.StatusCode >= 200 /\ r.StatusCode <= 299 /\ NoAccessToken(r.body)) =>
                 /\ LastAttempt(c).token.isNil
                 /\ LastAttempt(c).err # NoError
                 /\ (c.pc = "done") => (c.token.isNil /\ c.err # NoError)
            /\ \A i \in 1 .. Len(c.attempts) :
                 ~c.attempts[i].token.isNil => c.attempts[i].token.t.AccessToken # ""
            /\ ~c.token.isNil => c.token.t.AccessToken # ""

C9_Witness ==
    \E p \in Callers :
        /\ Answered(call[p])
        /\ call[p].answer.resp.StatusCode = 200
        /\ call[p].answer.resp.body = JSONBody([access_token |-> JNum("11")])
        /\ call[p].pc = "done"
        /\ call[p].err = ErrJSON

\* C9, the other cases: an empty access_token in a form body.
C9_WitnessMissing ==
    \E p \in Callers :
        /\ Answered(call[p])
        /\ call[p].answer.resp.StatusCode = 200
        /\ call[p].answer.resp.body.syntax = "form"
        /\ call[p].pc = "done"
        /\ call[p].err = ErrMissingAccessToken

\* C10: at every time, Valid holds of a Token exactly when its AccessToken
\* is not empty and it is not expired.
C10_Valid ==
    ~tok.isNil =>
        (Valid(tok, now) <=> (tok.t.AccessToken # "" /\ ~IsExpired(tok.t, now)))

C10_Witness ==
    /\ ~tok.isNil
    /\ tok.t.AccessToken # ""
    /\ ~tok.t.Expiry.zero
    /\ IsExpired(tok.t, now)
    /\ ~Valid(tok, now)
    /\ now > 1

\* C11: IsExpired is false of a zero Expiry at every time; of a non-zero
\* Expiry it is true exactly when Expiry minus expiryDelta is strictly
\* before the current time: an Expiry of now + expiryDelta is not expired,
\* one clock unit less is expired, and an Expiry one hour ago is expired.
C11_IsExpired ==
    ~tok.isNil =>
        LET e == tok.t.Expiry
        IN  /\ e.zero => ~IsExpired(tok.t, now)
            /\ ~e.zero => (IsExpired(tok.t, now) <=> (e.sec - 10 < now))
            /\ e = TimeAt(now + 10) => ~IsExpired(tok.t, now)
            /\ e = TimeAt(now + 10 - 1) => IsExpired(tok.t, now)
            /\ e = TimeAt(now - Hour) => IsExpired(tok.t, now)

\* An Expiry of now + expiryDelta, reached as the clock moved: not expired.
C11_Witness ==
    /\ ~tok.isNil
    /\ now > 1
    /\ tok.t.Expiry = TimeAt(now + expiryDelta)
    /\ ~IsExpired(tok.t, now)

\* C11, the other cases: expired one unit below the edge, and an hour ago.
C11_WitnessExpired ==
    /\ ~tok.isNil
    /\ now > 1
    /\ tok.t.Expiry \in {TimeAt(now + expiryDelta - 1), TimeAt(now - Hour)}
    /\ IsExpired(tok.t, now)

C12_WitnessOther ==
    /\ ~tok.isNil
    /\ tok.t.TokenType = "Unknown"
    /\ Type(tok.t) = "Unknown"
    /\ now > 1

\* The keys of the parameters AuthCodeURLWithParams sets itself.
FixedKeys == {"response_type", "client_id", "redirect_uri", "scope", "state"}

\* Whether the last AuthCodeURL call sets the fixed parameter k.
HasFixed(k) ==
    CASE k = "redirect_uri" -> config.RedirectURL # ""
      [] k = "scope" -> config.Scopes # <<>>
      [] k = "state" -> url.state # ""
      [] OTHER -> TRUE

\* The value the last AuthCodeURL call gives the fixed parameter k.
FixedValue(k) ==
    CASE k = "response_type" -> "code"
      [] k = "client_id" -> config.ClientID
      [] k = "redirect_uri" -> config.RedirectURL
      [] k = "scope" -> IF config.Scopes = <<>> THEN "" ELSE "scope1 scope2"
      [] OTHER -> url.state

Range(seq) == {seq[i] : i \in 1 .. Len(seq)}

\* C13: when a parameter of the caller has the key of a fixed parameter that
\* AuthCodeURLWithParams sets, the query of the URL carries that key with
\* the fixed value only, and the caller's value is not in it.
C13_FixedValueWins ==
    url.op # "" =>
        \A k \in FixedKeys \cap DOMAIN cloneURLValues(url.params) :
            HasFixed(k) => Query(url.result)[k] = <<FixedValue(k)>>

C14_WitnessBare ==
    /\ url.op = "AuthCodeURL"
    /\ url.state = ""
    /\ config.Scopes = <<>>
    /\ config.RedirectURL = ""
    /\ config.AuthURL = "server:1234/auth"
    /\ DOMAIN Query(url.result) = {"response_type", "client_id"}

\* C15: the URL is AuthURL as it is, then '&' when AuthURL has a '?' and
\* '?' when it has none, then the encoded parameters: one separator and
\* no second one.
C15_Separator ==
    url.op # "" =>
        LET u == url.result
            n == Len(Chars(config.AuthURL))
            sep == IF config.AuthURL \in {"server:1234/auth?foo=bar", "server:1234/auth?"}
                   THEN "&" ELSE "?"
        IN  /\ Len(u) >= n + 2
            /\ String(SubSeq(u, 1, n)) = config.AuthURL
            /\ u[n + 1] = sep
            /\ u[n + 2] \notin {"&", "?"}
            /\ String(u) = config.AuthURL \o sep \o String(SubSeq(u, n + 2, Len(u)))
            /\ (/\ config.AuthURL = "server:1234/auth?foo=bar"
                /\ config.ClientID = "CLIENT_ID"
                /\ config.RedirectURL = "REDIRECT_URL"
                /\ config.Scopes = <<>>
                /\ url.state = "test-state"
                /\ url.op = "AuthCodeURL")
               => String(u) =
                    "server:1234/auth?foo=bar&client_id=CLIENT_ID&redirect_uri=REDIRECT_URL&response_type=code&state=test-state"

C15_Witness ==
    /\ url.op = "AuthCodeURL"
    /\ config.AuthURL = "server:1234/auth?foo=bar"
    /\ url.result[Len(Chars(config.AuthURL)) + 1] = "&"

\* C15, the other case: an AuthURL without a query.
C15_WitnessQuestion ==
    /\ url.op = "AuthCodeURLWithParams"
    /\ config.AuthURL = "server:1234/auth"
    /\ url.result[2] = "?"

Pair(k, x) == [key |-> k, value |-> x]

\* The pairs of the values v.
PairsIn(v) == UNION {{Pair(k, v[k][i]) : i \in 1 .. Len(v[k])} : k \in DOMAIN v}

\* The credentials newTokenRequest puts into the body in the given mode.
CredentialPairs(mode) ==
    (IF mode = InParamsMode /\ config.ClientID # ""
     THEN {Pair("client_id", config.ClientID)} ELSE {})
    \cup (IF mode = InParamsMode /\ config.ClientSecret # ""
          THEN {Pair("client_secret", config.ClientSecret)} ELSE {})

Keys(body) == {body[i].key : i \in 1 .. Len(body)}

C16_WitnessPlain ==
    \E p \in Callers :
        /\ call[p].op = "Exchange"
        /\ call[p].extra = NilValues
        /\ config.RedirectURL = ""
        /\ Len(call[p].attempts) = 1
        /\ call[p].attempts[1].sent
        /\ call[p].attempts[1].mode = InHeaderMode
        /\ Len(call[p].attempts[1].req.Body) = 2

\* C17: the body of every request of CredentialsToken is
\* grant_type=password, username, password, scope (the Scopes joined by
\* spaces) exactly when Scopes is not empty, and the credentials in
\* InParams mode; it has no redirect_uri and no code.
C17_CredentialsRequest ==
    \A p \in Callers :
        LET c == call[p]
        IN  c.op = "CredentialsToken" =>
              \A i \in 1 .. Len(c.attempts) :
                LET a == c.attempts[i]
                    want == {Pair("grant_type", "password"), Pair("username", "user1"),
                             Pair("password", "password1")}
                            \cup (IF config.Scopes # <<>>
                                  THEN {Pair("scope", "scope1 scope2")} ELSE {})
                            \cup CredentialPairs(a.mode)
                IN  a.sent =>
                      /\ BodyPairs(a.req.Body) = want
                      /\ Len(a.req.Body) = Cardinality(want)
                      /\ Keys(a.req.Body) \cap {"redirect_uri", "code"} = {}

C17_Witness ==
    \E p \in Callers :
        /\ call[p].op = "CredentialsToken"
        /\ config.Scopes # <<>>
        /\ config.RedirectURL # ""
        /\ Len(call[p].attempts) = 1
        /\ call[p].attempts[1].sent
        /\ Pair("scope", "scope1 scope2") \in BodyPairs(call[p].attempts[1].req.Body)

\* C17, the other case: no Scopes, no scope.
C17_WitnessNoScope ==
    \E p \in Callers :
        /\ call[p].op = "CredentialsToken"
        /\ config.Scopes = <<>>
        /\ Len(call[p].attempts) = 2
        /\ call[p].attempts[2].sent
        /\ "scope" \notin Keys(call[p].attempts[2].req.Body)

\* The percent-escaped form of the credentials of the model.
Escaped(s) ==
    CASE s = "CLIENT_ID??" -> "CLIENT_ID%3F%3F"
      [] s = "CLIENT_SECRET??" -> "CLIENT_SECRET%3F%3F"
      [] OTHER -> s

\* C18: a request in InHeader mode has the Basic Authorization of the
\* percent-escaped ClientID and ClientSecret and a body that is the
\* caller's grant parameters, without client_id and client_secret; a
\* request in InParams mode has no Authorization and a body that is the
\* grant parameters plus client_id when ClientID is not empty and
\* client_secret when ClientSecret is not empty.
C18_CredentialsInOnePlace ==
    \A p \in Callers :
        LET c == call[p]
        IN  \A i \in 1 .. Len(c.attempts) :
              LET a == c.attempts[i]
                  body == BodyPairs(a.req.Body)
              IN  a.sent =>
                    /\ a.mode \in {InHeaderMode, InParamsMode}
                    /\ a.mode = InHeaderMode =>
                         /\ a.req.Authorization =
                              [set |-> TRUE, username |-> Escaped(config.ClientID),
                               password |-> Escaped(config.ClientSecret)]
                         /\ body = PairsIn(c.params)
                         /\ Keys(a.req.Body) \cap {"client_id", "client_secret"} = {}
                    /\ a.mode = InParamsMode =>
                         /\ ~a.req.Authorization.set
                         /\ body = PairsIn(c.params) \cup CredentialPairs(InParamsMode)
                         /\ ("client_id" \in Keys(a.req.Body)) <=> (config.ClientID # "")
                         /\ ("client_secret" \in Keys(a.req.Body)) <=> (config.ClientSecret # "")
                    /\ Len(a.req.Body) = Cardinality(body)

\* An InHeader request whose credentials need escaping.
C18_Witness ==
    \E p \in Callers :
        /\ Len(call[p].attempts) >= 1
        /\ call[p].attempts[1].sent
        /\ call[p].attempts[1].mode = InHeaderMode
        /\ config.ClientSecret = "CLIENT_SECRET??"
        /\ call[p].attempts[1].req.Authorization.password = "CLIENT_SECRET%3F%3F"

\* C18, the other case: an InParams request with a ClientID and no ClientSecret.
C18_WitnessInParams ==
    \E p \in Callers :
        /\ Len(call[p].attempts) = 2
        /\ call[p].attempts[2].sent
        /\ call[p].attempts[2].mode = InParamsMode
        /\ config.ClientID # ""
        /\ config.ClientSecret = ""
        /\ Keys(call[p].attempts[2].req.Body) \cap {"client_id", "client_secret"} = {"client_id"}

\* The Content-Type headers whose media type is text/plain or
\* application/x-www-form-urlencoded.
FormHeaders ==
    {"application/x-www-form-urlencoded", "text/plain; charset=utf-8", "TEXT/PLAIN",
     "text/plain; charset"}

\* The attempt was answered by a 2xx response whose body was read.
Parsed(c) ==
    /\ Answered(c)
    /\ ~c.answer.resp.readErr
    /\ c.answer.resp.StatusCode >= 200
    /\ c.answer.resp.StatusCode <= 299

\* C19: the body of a 2xx response is parsed as a form exactly when the
\* media type of its Content-Type is text/plain or
\* application/x-www-form-urlencoded, and as JSON for every other header,
\* a missing or malformed one included: a form body gives a token only in
\* the first case, with the form's multi-map as Raw, and a JSON body gives
\* one only in the second, with the string-keyed map as Raw.
C19_ContentType ==
    \A p \in Callers :
        LET c == call[p]
            r == c.answer.resp
            a == LastAttempt(c)
        IN  Parsed(c) =>
              IF r.ContentType \in FormHeaders
              THEN /\ r.body.syntax = "json" => (a.token.isNil /\ a.err = ErrMissingAccessToken)
                   /\ r.body.syntax = "garbage" => (a.token.isNil /\ a.err = ErrInvalidEscape)
                   /\ (r.body.syntax = "form" /\ ~NoAccessToken(r.body)) =>
                         /\ ~a.token.isNil
                         /\ a.token.t.Raw = [kind |-> "url.Values", m |-> r.body.fields]
                   /\ ~a.token.isNil => a.token.t.Raw.kind = "url.Values"
              ELSE /\ r.body.syntax # "json" => (a.token.isNil /\ a.err = ErrJSON)
                   /\ (r.body = JSONOk) =>
                         /\ ~a.token.isNil
                         /\ a.token.t.Raw = [kind |-> "map", m |-> r.body.fields]
                   /\ ~a.token.isNil => a.token.t.Raw.kind = "map"

\* A form body under "text/plain; charset=utf-8".
C19_Witness ==
    \E p \in Callers :
        /\ Parsed(call[p])
        /\ call[p].answer.resp.ContentType = "text/plain; charset=utf-8"
        /\ call[p].answer.resp.body = FormOk
        /\ call[p].pc = "done"
        /\ ~call[p].token.isNil
        /\ call[p].token.t.Raw.kind = "url.Values"

\* C19, the other cases: a JSON body with no Content-Type, and with one
\* that has no well-formed media type.
C19_WitnessJSON ==
    \E p \in Callers :
        /\ Parsed(call[p])
        /\ call[p].answer.resp.ContentType \in {"", "text/plain/extra"}
        /\ call[p].answer.resp.body = JSONOk
        /\ call[p].pc = "done"
        /\ ~call[p].token.isNil
        /\ call[p].token.t.Raw.kind = "map"

\* The step is an attempt of p that read a JSON body with an access_token
\* from a 2xx response of a JSON Content-Type.
ParsedJSON(p) ==
    /\ Len(call'[p].attempts) = Len(call[p].attempts) + 1
    /\ Parsed(call'[p])
    /\ call'[p].answer.resp.ContentType \notin FormHeaders
    /\ call'[p].answer.resp.body.syntax = "json"
    /\ ~NoAccessToken(call'[p].answer.resp.body)
    /\ \A k \in {"token_type", "refresh_token"} :
          k \in DOMAIN call'[p].answer.resp.body.fields
            => call'[p].answer.resp.body.fields[k].t = "string"

\* The integer a JSON number or string holds, if it holds one.
HoldsInteger(v) == v.t \in {"number", "string"} /\ v.lit \in DOMAIN Numerals

\* C20 as stated: expires_in a number n or a string holding the integer n
\* gives the Expiry now + n; null or absent gives the zero Expiry; another
\* type or a string that is no number gives an error and no token.
C20_OriginalStep ==
    \A p \in Callers :
        ParsedJSON(p) =>
          LET f == call'[p].answer.resp.body.fields
              a == LastAttempt(call'[p])
          IN  IF "expires_in" \notin DOMAIN f \/ f["expires_in"].t = "null"
              THEN ~a.token.isNil /\ a.token.t.Expiry = ZeroTime
              ELSE IF HoldsInteger(f["expires_in"])
              THEN ~a.token.isNil
                   /\ a.token.t.Expiry = TimeAt(now + Numerals[f["expires_in"].lit])
              ELSE (f["expires_in"].t \in {"bool", "object", "string"})
                     => (a.token.isNil /\ a.err # NoError)

C20_Original == [][C20_OriginalStep]_vars

\* C20, amended: expires_in a number or a string holding an integer n other
\* than 0 gives the Expiry now + n; expires_in 0 or "0", like null and an
\* absent expires_in, gives the zero Expiry; a number that is no integer,
\* another type or a string that is no integer gives an error and no token.
C20_Step ==
    \A p \in Callers :
        ParsedJSON(p) =>
          LET f == call'[p].answer.resp.body.fields
              a == LastAttempt(call'[p])
          IN  IF "expires_in" \notin DOMAIN f \/ f["expires_in"].t = "null"
              THEN ~a.token.isNil /\ a.token.t.Expiry = ZeroTime
              ELSE IF HoldsInteger(f["expires_in"])
              THEN ~a.token.isNil
                   /\ a.token.t.Expiry =
                        IF Numerals[f["expires_in"].lit] = 0 THEN ZeroTime
                        ELSE TimeAt(now + Numerals[f["expires_in"].lit])
              ELSE a.token.isNil /\ a.err # NoError

C20_ExpiresIn == [][C20_Step]_vars

\* expires_in given as the string "10", parsed after the clock moved.
C20_Witness ==
    \E p \in Callers :
        /\ Parsed(call[p])
        /\ call[p].answer.resp.body
             = JSONBody([access_token |-> JStr("ACCESS_TOKEN"), expires_in |-> JStr("10")])
        /\ LastAttempt(call[p]).token.t.Expiry = TimeAt(12)
        /\ now = 2

\* C20, the amended case: expires_in 0 gives a token that never expires.
C20_WitnessZero ==
    \E p \in Callers :
        /\ Parsed(call[p])
        /\ call[p].answer.resp.body
             = JSONBody([access_token |-> JStr("ACCESS_TOKEN"), expires_in |-> JNum("0")])
        /\ ~LastAttempt(call[p]).token.isNil
        /\ LastAttempt(call[p]).token.t.Expiry = ZeroTime

\* C20, the failing cases: expires_in false.
C20_WitnessError ==
    \E p \in Callers :
        /\ Parsed(call[p])
        /\ call[p].answer.resp.body
             = JSONBody([access_token |-> JStr("ACCESS_TOKEN"), expires_in |-> JBool("false")])
        /\ call[p].pc = "done"
        /\ call[p].token.isNil
        /\ call[p].err = ErrJSON

\* C21: for an integer expires_in that fits in an int64, the seconds stored
\* are min(v, 2^31 - 1): the 32-bit maximum for a value above it, and the
\* value itself otherwise, negative values included.
C21_ClampNoWrap ==
    (expiresIn.set /\ expiresIn.b.t \in {"number", "string"}
       /\ ParseInt64(expiresIn.b.lit).ok) =>
        LET v == ParseInt64(expiresIn.b.lit).i
        IN  /\ expiresIn.ok
            /\ IF v.q >= 1 THEN expiresIn.n = 2147483647
               ELSE IF v.q = 0 THEN expiresIn.n = v.r
               ELSE /\ v.q = -1
                    /\ expiresIn.n < 0
                    /\ expiresIn.n + 2147483647 = v.r - 1

\* The step is an attempt of p that read a form body with an access_token
\* from a 2xx response of a form Content-Type.
ParsedForm(p) ==
    /\ Len(call'[p].attempts) = Len(call[p].attempts) + 1
    /\ Parsed(call'[p])
    /\ call'[p].answer.resp.ContentType \in FormHeaders
    /\ call'[p].answer.resp.body.syntax = "form"
    /\ ~NoAccessToken(call'[p].answer.resp.body)

\* C22: of a form body, an expires_in that is no decimal integer is
\* ignored, the token coming back with the zero Expiry and no error;
\* expires_in 0 or absent gives the zero Expiry; a parsed n other than 0
\* gives the Expiry now + n.
C22_Step ==
    \A p \in Callers :
        ParsedForm(p) =>
          LET f == call'[p].answer.resp.body.fields
              e == IF "expires_in" \in DOMAIN f THEN f["expires_in"][1] ELSE ""
              a == LastAttempt(call'[p])
          IN  /\ ~a.token.isNil
              /\ a.err = NoError
              /\ a.token.t.Expiry =
                   IF e \in {"10", "-3"} THEN TimeAt(now + Numerals[e]) ELSE ZeroTime

C22_FormExpiresIn == [][C22_Step]_vars

\* What Extra is to give for the key of a form multi-map.
WantExtra(key) ==
    CASE key \in {"request_id", "padded"} -> IntAny(Int64(0, 86400))
      [] key = "retries" -> IntAny(Int64(0, 10))
      [] key = "expires_in" -> FloatAny("86400.92")
      [] key = "server_time" -> FloatAny("1443571905.5606415")
      [] key = "scope" -> StringAny("user")
      [] key = "referer_ip" -> StringAny("10.0.0.1")
      [] key = "untrimmed" -> StringAny("  untrimmed  ")
      [] key = "login" -> StringAny("user.name")
      [] key = "huge" -> StringAny("99999999999999999999")
      [] OTHER -> StringAny("")

\* C23: Extra on a form multi-map trims the first value of the key; without
\* a '.' it gives the int64 when the text is a decimal integer that fits,
\* with one '.' the float64 when the text parses as a float, and in every
\* other case the first value as it is, untrimmed.
C23_ExtraForm ==
    (~tok.isNil /\ tok.t.Raw = [kind |-> "url.Values", m |-> ExtraValues]) =>
        \A key \in ExtraKeys : Extra(tok.t, key) = WantExtra(key)

C23_Witness ==
    /\ ~tok.isNil
    /\ tok.t.Raw.kind = "url.Values"
    /\ now > 1
    /\ Extra(tok.t, "padded") = IntAny(Int64(0, 86400))
    /\ Extra(tok.t, "expires_in").kind = "float64"
    /\ Extra(tok.t, "untrimmed") = StringAny("  untrimmed  ")
    /\ Extra(tok.t, "referer_ip").kind = "string"

\* C24: Extra on a string-keyed map gives the stored value as it is for a
\* key of the map and nil for any other key; on a Raw that is neither a
\* string-keyed map nor a form multi-map it gives nil for every key.
C24_ExtraMap ==
    ~tok.isNil =>
        \A key \in ExtraKeys :
            /\ tok.t.Raw.kind = "map" =>
                 Extra(tok.t, key) =
                   CASE key = "extra_key" -> JSONAny([t |-> "string", lit |-> "abc"])
                     [] key = "count" -> JSONAny([t |-> "number", lit |-> "11"])
                     [] key = "text" -> JSONAny([t |-> "string", lit |-> "86400"])
                     [] key = "empty" -> JSONAny([t |-> "string", lit |-> ""])
                     [] OTHER -> NilAny
            /\ tok.t.Raw.kind \notin {"map", "url.Values"} => Extra(tok.t, key) = NilAny

C24_Witness ==
    /\ ~tok.isNil
    /\ tok.t.Raw.kind = "map"
    /\ now > 1
    /\ Extra(tok.t, "text") = JSONAny(JStr("86400"))
    /\ Extra(tok.t, "other_key") = NilAny

\* C24, the other case: a Raw of another type.
C24_WitnessOther ==
    /\ ~tok.isNil
    /\ tok.t.Raw.kind = "map[string]string"
    /\ now > 1
    /\ Extra(tok.t, "scope") = NilAny

\* An attempt in InParamsMode whose request holds the client credentials.
WithCredentials(a) ==
    /\ a.mode = InParamsMode
    /\ \E i \in 1 .. Len(a.req.Body) : a.req.Body[i] = Pair("client_id", config.ClientID)

C25_Step ==
    /\ url'.caller = url'.params
    /\ \A p \in Callers :
         /\ call'[p].caller = call'[p].extra
         /\ InFlight(p) =>
              /\ call'[p].extra = call[p].extra
              /\ call'[p].params = call[p].params

C25_WitnessFailed ==
    \E p \in Callers :
        /\ Finished(call[p]) /\ call[p].op = "Exchange"
        /\ call[p].err # NoError
        /\ Len(call[p].attempts) = 1
        /\ WithCredentials(LastAttempt(call[p]))
        /\ ~call[p].extra.isNil /\ "grant_type" \in DOMAIN call[p].extra.m
        /\ call[p].caller = call[p].extra

\* The responses the attempts of call c have received, with the number of
\* times the body of each has been closed; the answer to the latest
\* attempt is c.answer.
Received(c, i) == c.attempts[i].sent /\ c.attempts[i].err \notin {ErrContextCanceled, ErrConnectionRefused}

C26_WitnessReadError ==
    \E p \in Callers :
        /\ Finished(call[p])
        /\ LastAttempt(call[p]).err = ErrRead
        /\ call[p].answer.resp.readErr
        /\ LastAttempt(call[p]).closed = 1

\* C26, a call that fell back: both responses closed.
C26_WitnessBoth ==
    \E p \in Callers :
        /\ FellBack(call[p])
        /\ Received(call[p], 1) /\ Received(call[p], 2)
        /\ call[p].attempts[1].closed = 1 /\ call[p].attempts[2].closed = 1

C27_Step ==
    /\ config.Mode # AutoDetectMode => config'.Mode = config.Mode
    /\ config'.Mode # config.Mode =>
         \E p \in Callers :
             LET c == call[p]
                 d == call'[p]
             IN  /\ InFlight(p) /\ c.shouldGuessAuthMode
                 /\ Finished(d) /\ d.err = NoError /\ ~d.token.isNil
                 /\ LastAttempt(d).err = NoError
                 /\ config'.Mode = LastAttempt(d).mode
                 /\ config'.Mode = IF Len(d.attempts) = 1 THEN InHeaderMode ELSE InParamsMode
    /\ \A p \in Callers :
         (InFlight(p) /\ call[p].shouldGuessAuthMode /\ Finished(call'[p])) =>
            config'.Mode = IF call'[p].err # NoError THEN AutoDetectMode
                           ELSE LastAttempt(call'[p]).mode

\* C27: with one caller, the stored mode changes only in the step that ends
\* a successful call that began in AutoDetectMode, to the mode of the
\* attempt that succeeded (InHeaderMode for the first, InParamsMode for the
\* second); a stored InHeaderMode or InParamsMode never changes.
C27_StoredMode == [][C27_Step]_vars

\* C27, a stored InHeaderMode that a failing call leaves as it is.
C27_WitnessKept ==
    \E p \in Callers :
        /\ Finished(call[p]) /\ call[p].err # NoError
        /\ ~call[p].shouldGuessAuthMode
        /\ call[p].mode = InHeaderMode
        /\ config.Mode = InHeaderMode
        /\ config.ClientID = ""

\* C27: a first attempt that succeeded from AutoDetectMode set the mode.
C27_Witness ==
    \E p \in Callers :
        /\ Finished(call[p]) /\ call[p].err = NoError
        /\ call[p].shouldGuessAuthMode
        /\ Len(call[p].attempts) = 1
        /\ config.Mode = InHeaderMode

\* The modes of the attempts of call c follow from what c read at its start.
OwnModes(c) ==
    /\ Len(c.attempts) <= 2
    /\ Len(c.attempts) >= 1 =>
         c.attempts[1].mode = IF c.shouldGuessAuthMode THEN InHeaderMode
                              ELSE IF c.pc = "done" THEN c.mode ELSE c.attempts[1].mode
    /\ Len(c.attempts) = 2 => c.shouldGuessAuthMode /\ c.attempts[2].mode = InParamsMode
    /\ c.pc = "first" => c.mode = IF c.shouldGuessAuthMode THEN InHeaderMode ELSE c.mode
    /\ c.pc = "second" => c.shouldGuessAuthMode /\ c.mode = InParamsMode

\* A step of one goroutine leaves the locals of the call of another, and the
\* mode of a call in flight changes only from its own failed first attempt.
C28_OwnModes ==
    \A p \in Goroutines :
        /\ OwnModes(call'[p])
        /\ (call[p].pc \in {"first", "second"}) =>
             /\ call'[p].shouldGuessAuthMode = call[p].shouldGuessAuthMode
             /\ call'[p].mode # call[p].mode =>
                  /\ call[p].pc = "first" /\ call'[p].pc = "second"
                  /\ call[p].shouldGuessAuthMode

C28_WrittenOnce == \A p \in Goroutines : call'[p].writes <= 1

C28_FinalMode ==
    (\A p \in Goroutines : Finished(call'[p])) =>
        \/ /\ config'.Mode = AutoDetectMode
           /\ \A p \in Goroutines : call'[p].err # NoError
        \/ \E p \in Goroutines :
             \E i \in 1 .. Len(call'[p].attempts) :
                 /\ call'[p].attempts[i].err = NoError
                 /\ call'[p].attempts[i].mode = config'.Mode

C28_InParamsKept == config.Mode = InParamsMode => config'.Mode # InHeaderMode

C28_Step == C28_OwnModes /\ C28_WrittenOnce /\ C28_FinalMode /\ C28_InParamsKept

\* C28: with two calls running at once on a Client that starts in
\* AutoDetectMode, each call takes the modes of its attempts from the stored
\* mode it read at its start, writes the stored mode at most once, the
\* stored mode after both calls is AutoDetectMode (both failed) or the mode
\* of an attempt that succeeded, and a stored InParamsMode is never
\* overwritten by InHeaderMode.
C28_Concurrent == [][C28_Step]_vars

\* The same without the last clause.
C28_LastWriteStays == [][C28_OwnModes /\ C28_WrittenOnce /\ C28_FinalMode]_vars

\* What a finished call returned: a token or an error, and after a first
\* attempt that gave a token, that token with no second attempt.
C29_Returned ==
    \A p \in Callers :
        call[p].pc = "done" =>
            /\ call[p].token.isNil <=> call[p].err # NoError
            /\ (Len(call[p].attempts) >= 1 /\ call[p].attempts[1].err = NoError) =>
                 /\ Len(call[p].attempts) = 1
                 /\ call[p].token = call[p].attempts[1].token
                 /\ ~call[p].token.isNil

\* C29: a call to which the transport answers every request returns, and
\* it returns either a Token and no error or an error and no Token; after
\* a first attempt that gave a token there is no second request.
C29_Terminates ==
    /\ []C29_Returned
    /\ \A p \in Callers : (call[p].pc \in {"first", "second"}) ~> (call[p].pc = "done")

C29_Witness ==
    \E p \in Callers :
        /\ call[p].pc = "done"
        /\ Len(call[p].attempts) = 1
        /\ call[p].attempts[1].sent
        /\ ~call[p].token.isNil /\ call[p].err = NoError
        /\ call[p].shouldGuessAuthMode

\* C29, a call that returns an error after two requests.
C29_WitnessError ==
    \E p \in Callers :
        /\ call[p].pc = "done"
        /\ Len(call[p].attempts) = 2
        /\ call[p].attempts[2].sent
        /\ call[p].token.isNil /\ call[p].err # NoError

\* C29, a call that returns before any request.
C29_WitnessNoRequest ==
    \E p \in Callers :
        /\ call[p].pc = "done"
        /\ call[p].op = "Token"
        /\ call[p].attempts = <<>>
        /\ call[p].token.isNil /\ call[p].err = ErrRefreshTokenNotSet

\* Once expired, expired; once not valid, not valid.
C30_Step ==
    /\ tok' = tok
    /\ now' >= now
    /\ ~tok.isNil =>
         /\ IsExpired(tok.t, now) => IsExpired(tok.t, now')
         /\ ~Valid(tok, now) => ~Valid(tok, now')

\* C30: for a Token that is left alone while time moves forward, IsExpired
\* never goes from true to false and Valid never from false to true; a
\* Token with zero Expiry and an AccessToken is Valid at every time, and a
\* Token with an Expiry is expired in the end.
C30_Expiry ==
    /\ [][C30_Step]_vars
    /\ []((~tok.isNil /\ tok.t.Expiry.zero /\ tok.t.AccessToken # "") => Valid(tok, now))
    /\ (~tok.isNil /\ ~tok.t.Expiry.zero) ~> (~tok.isNil /\ IsExpired(tok.t, now))
    /\ (~tok.isNil /\ ~tok.t.Expiry.zero) ~> [](~Valid(tok, now))

\* C30: a token that was valid at the start and has expired since.
C30_Witness ==
    /\ ~tok.isNil
    /\ tok.t.AccessToken # ""
    /\ tok.t.Expiry = TimeAt(MaxTime + expiryDelta)
    /\ Valid(tok, 1) /\ ~IsExpired(tok.t, MaxTime)
    /\ now > MaxTime
    /\ IsExpired(tok.t, now) /\ ~Valid(tok, now)

\* C30, a token with no Expiry, at the end of time.
C30_WitnessZero ==
    /\ ~tok.isNil
    /\ tok.t.AccessToken # ""
    /\ tok.t.Expiry.zero
    /\ now = Horizon
    /\ Valid(tok, now)

====
